---- MODULE Spec2Model ----
(***************************************************************************)
(* A model of the branching form engine of the Web-Form repository:        *)
(* DynamicForm (src/DynamicForm.js) composed with the field model of       *)
(* DynamicFormField (src/unnamed/part_001).                                *)
(*                                                                         *)
(* JavaScript arrays are 0-based, TLA+ sequences 1-based: the row at       *)
(* JavaScript position i of this.rows is rows[i + 1].                      *)
(***************************************************************************)
EXTENDS Integers, Sequences, FiniteSets, TLC

VARIABLES
    rows,           \* this.rows: the row configuration handed to the constructor
    currentRows,    \* this.currentRows
    fields,         \* this.fields: Map fieldId -> DynamicFormField
    branchHistory,  \* this.branchHistory
    domRows,        \* the row elements inside the form element, in document order
    form,           \* "none" | "detached" | "attached": the form element and the container
    threw,          \* a handler ended with an uncaught TypeError
    formData,       \* what the last handler returned, when it was handleSubmit
    last,           \* the last handler run and its arguments
    events,         \* the values of the change events delivered since render()
    memo,           \* one earlier branch decision, kept for comparison
    service         \* the SharePointService and the submitForm call it runs

vars == <<rows, currentRows, fields, branchHistory, domRows, form, threw,
          formData, last, events, memo, service>>

----------------------------------------------------------------------------
(* Bounds of the model *)

\* the longest branchConditions list drawn for the decision function
MaxConds == 3
\* the most rows a table holds
MaxTableRows == 2
\* the change events remembered in `events`
MaxEvents == 2

----------------------------------------------------------------------------
(* JavaScript values that travel in a value bag *)

Value(t, s, b, r, d, j) ==
    [t |-> t, s |-> s, b |-> b, rows |-> r, deletedIds |-> d, json |-> j]
Undefined == Value("undefined", "", FALSE, <<>>, <<>>, <<>>)
Null      == Value("null", "", FALSE, <<>>, <<>>, <<>>)
StrV(x)   == Value("string", x, FALSE, <<>>, <<>>, <<>>)
BoolV(x)  == Value("boolean", "", x, <<>>, <<>>, <<>>)
\* the object {rows, deletedIds} and a plain array of row objects
TableV(r, d) == Value("object", "", FALSE, r, d, <<>>)
ArrV(r)      == Value("array", "", FALSE, r, <<>>, <<>>)
\* the text JSON.stringify returns for an object with integer keys: its
\* members as <<key, value>> in the order they are written
JsonV(pairs) == Value("string", "<json>", FALSE, <<>>, <<>>, pairs)

\* JavaScript truthiness, as `data[fieldConfig.id]` is tested
Truthy(v) ==
    CASE v.t = "undefined" -> FALSE
      [] v.t = "null"      -> FALSE
      [] v.t = "string"    -> v.s # ""
      [] v.t = "boolean"   -> v.b
      [] OTHER             -> TRUE

\* the value as strict equality against a condition's string sees it: a value
\* that is not a string equals no string
NotAString == "<not a string>"
Raw(v) == IF v.t = "string" /\ v.json = <<>> THEN v.s ELSE NotAString

\* String(value), as a template literal and an assignment to input.value see it
Str(v) ==
    CASE v.t = "string"    -> v.s
      [] v.t = "boolean"   -> IF v.b THEN "true" ELSE "false"
      [] v.t = "null"      -> "null"
      [] v.t = "undefined" -> "undefined"
      [] v.t = "array"     -> "<array>"
      [] OTHER             -> "[object Object]"
InputStr(v) == IF v.t = "null" THEN "" ELSE Str(v)

\* a condition without a value property
NoValue == "<undefined>"

----------------------------------------------------------------------------
(* Configuration: RowConfig, FieldConfig, BranchCondition *)

Cond(fieldId, value, nextRow) ==
    [fieldId |-> fieldId, isArray |-> FALSE, value |-> value, values |-> <<>>,
     operator |-> "equals", nextRow |-> nextRow, defaultBranch |-> FALSE]
ArrCond(fieldId, values, operator, nextRow) ==
    [fieldId |-> fieldId, isArray |-> TRUE, value |-> NoValue, values |-> values,
     operator |-> operator, nextRow |-> nextRow, defaultBranch |-> FALSE]
DefaultCond(fieldId, nextRow) ==
    [fieldId |-> fieldId, isArray |-> FALSE, value |-> NoValue, values |-> <<>>,
     operator |-> "equals", nextRow |-> nextRow, defaultBranch |-> TRUE]

NoColumns == <<>>
\* a field without tableConfig flags; columns are tableConfig.columns
Field(id, type, options, columns) ==
    [id |-> id, type |-> type, options |-> options, columns |-> columns,
     sortable |-> FALSE, filterable |-> FALSE, pagination |-> FALSE]
\* a table field with the flags of its tableConfig
TableField(id, columns, sortable, filterable, pagination) ==
    [id |-> id, type |-> "table", options |-> <<>>, columns |-> columns,
     sortable |-> sortable, filterable |-> filterable, pagination |-> pagination]

\* hasBranchConditions: the row has a branchConditions property (an empty
\* array is truthy in JavaScript)
Row(id, fs, hasBC, conds) ==
    [id |-> id, fields |-> fs, hasBranchConditions |-> hasBC, branchConditions |-> conds]

----------------------------------------------------------------------------
(* BranchEngine: the decision of handleBranching *)

\* shouldBranch with every array condition read as a membership test
shouldBranchSome(condition, value) ==
    IF condition.isArray
    THEN \E i \in 1..Len(condition.values) : condition.values[i] = value
    ELSE IF condition.defaultBranch
         THEN TRUE
         ELSE condition.value = value

shouldBranch(condition, value) ==
    IF condition.isArray
    THEN IF condition.operator = "or"
         THEN \E i \in 1..Len(condition.values) : condition.values[i] = value
         ELSE \A i \in 1..Len(condition.values) : condition.values[i] = value
    ELSE IF condition.defaultBranch
         THEN TRUE
         ELSE condition.value = value

\* the positions of the conditions the scan of lines 92-111 stops at
Firing(rowConfig, fieldId, value) ==
    {i \in 1..Len(rowConfig.branchConditions) :
        /\ rowConfig.branchConditions[i].fieldId = fieldId
        /\ shouldBranch(rowConfig.branchConditions[i], value)}

\* Array.prototype.find of lines 86-90
Defaults(rowConfig, fieldId) ==
    {i \in 1..Len(rowConfig.branchConditions) :
        /\ rowConfig.branchConditions[i].fieldId = fieldId
        /\ rowConfig.branchConditions[i].defaultBranch}

Min(S) == CHOOSE x \in S : \A y \in S : x <= y

\* decide with the default branch looked up without regard to the field
decideAnyDefault(rowConfig, fieldId, value) ==
    LET anyDefault == {i \in 1..Len(rowConfig.branchConditions) :
                          rowConfig.branchConditions[i].defaultBranch}
    IN  IF rowConfig.hasBranchConditions /\ Firing(rowConfig, fieldId, value) # {}
        THEN rowConfig.branchConditions[Min(Firing(rowConfig, fieldId, value))].nextRow
        ELSE IF rowConfig.hasBranchConditions /\ anyDefault # {}
        THEN rowConfig.branchConditions[Min(anyDefault)].nextRow
        ELSE rowConfig.id + 1

\* decide falling back on the branch recorded for the row before id + 1
decideFromHistory(rowConfig, fieldId, value) ==
    IF rowConfig.hasBranchConditions /\ Firing(rowConfig, fieldId, value) # {}
    THEN rowConfig.branchConditions[Min(Firing(rowConfig, fieldId, value))].nextRow
    ELSE IF rowConfig.hasBranchConditions /\ Defaults(rowConfig, fieldId) # {}
    THEN rowConfig.branchConditions[Min(Defaults(rowConfig, fieldId))].nextRow
    ELSE IF rowConfig.id \in DOMAIN branchHistory
    THEN branchHistory[rowConfig.id]
    ELSE rowConfig.id + 1

decide(rowConfig, fieldId, value) ==
    IF rowConfig.hasBranchConditions /\ Firing(rowConfig, fieldId, value) # {}
    THEN rowConfig.branchConditions[Min(Firing(rowConfig, fieldId, value))].nextRow
    ELSE IF rowConfig.hasBranchConditions /\ Defaults(rowConfig, fieldId) # {}
    THEN rowConfig.branchConditions[Min(Defaults(rowConfig, fieldId))].nextRow
    ELSE rowConfig.id + 1

----------------------------------------------------------------------------
(* FieldModel: DynamicFormField *)

\* String.prototype.split("_") over the strings of the configurations: a
\* string listed here holds underscores, every other string holds none
Underscored == ("Tax_ID" :> <<"Tax", "ID">>)
Segs(x) == IF x \in DOMAIN Underscored THEN Underscored[x] ELSE <<x>>

\* a column of a tableConfig; options are the values of a select cell
Column(header, type, options) ==
    [header |-> header, type |-> type, options |-> options, filterable |-> FALSE]
\* a column with filterable: true
FilterColumn(header, type, options) ==
    [header |-> header, type |-> type, options |-> options, filterable |-> TRUE]

\* createTableCellInput: the value a new cell shows (a select without a
\* placeholder option shows its first option)
createTableCellInput(column) ==
    IF Len(column.options) > 0 THEN column.options[1] ELSE ""

\* addTableRow: the row appended to tbody, tagged when existingId is truthy;
\* display is its style.display, dnone its class d-none
addTableRow(tbl, columns, existingId) ==
    [tbl EXCEPT !.rows = Append(@,
        [id |-> existingId,
         cells |-> [c \in 1..Len(columns) |-> createTableCellInput(columns[c])],
         display |-> "", dnone |-> FALSE])]

\* the table of createTable before its controls and first row are made:
\* marks are the sort indicators of the th elements ("" without sortable),
\* filters the values of the filter inputs, currentPage and rowsPerPage the
\* dataset of tbody (0 while unset), controls whether the pagination wrapper
\* is inside the .table-responsive wrapper
NoFilter == [text |-> "", min |-> "", max |-> ""]
emptyTable(columns, sortable) ==
    [rows |-> <<>>, deletedIds |-> <<>>, sortDir |-> "",
     marks |-> [c \in 1..Len(columns) |-> IF sortable THEN "⇅" ELSE ""],
     filters |-> [c \in 1..Len(columns) |-> NoFilter],
     currentPage |-> 0, rowsPerPage |-> 0, controls |-> FALSE]

NoTable == emptyTable(<<>>, FALSE)

\* the options of the rows-per-page select
RowsPerPageOptions == <<5, 10, 25, 50>>

\* the positions of the rows whose style.display is not "none"
visibleRows(tbl) == SelectSeq([i \in 1..Len(tbl.rows) |-> i],
                              LAMBDA i : tbl.rows[i].display # "none")

\* updatePagination(tbody): d-none is toggled on every visible row, then the
\* buttons are written into the .btn-group of the pagination wrapper, which
\* closest(".table-responsive").querySelector finds only once the wrapper is
\* inside; writing to null throws
updatePagination(tbl, pagination) ==
    IF ~pagination THEN [tbl |-> tbl, threw |-> FALSE]
    ELSE LET visible == visibleRows(tbl)
             index(i) == (CHOOSE k \in 1..Len(visible) : visible[k] = i) - 1
             rowPage(i) == (index(i) \div tbl.rowsPerPage) + 1
         IN  [tbl |-> [tbl EXCEPT !.rows =
                        [i \in 1..Len(tbl.rows) |->
                            IF tbl.rows[i].display # "none"
                            THEN [tbl.rows[i] EXCEPT !.dnone = rowPage(i) # tbl.currentPage]
                            ELSE tbl.rows[i]]],
              threw |-> ~tbl.controls]

\* createPaginationControls(tbody), called before its wrapper is appended
createPaginationControls(tbl) ==
    updatePagination([tbl EXCEPT !.currentPage = 1,
                                 !.rowsPerPage = RowsPerPageOptions[1]], TRUE)

\* createTable: an empty tbody, the pagination controls when configured, then
\* the initial row; threw when createPaginationControls threw
createTable(config) ==
    LET empty == emptyTable(config.columns, config.sortable)
        paged == createPaginationControls(empty)
    IN  IF config.pagination
        THEN IF paged.threw THEN paged
             ELSE [tbl |-> addTableRow([paged.tbl EXCEPT !.controls = TRUE],
                                       config.columns, ""),
                   threw |-> FALSE]
        ELSE [tbl |-> addTableRow(empty, config.columns, ""), threw |-> FALSE]

\* constructor and render(): the field as it is when its row is rendered;
\* `row` is the data-row-id of the row element its element is put in,
\* element is FALSE when render() threw before this.element was assigned,
\* and reading holds the texts of the files whose file.text() is pending
DynamicFormField(config, rowIndex) ==
    [id |-> config.id, type |-> config.type, row |-> rowIndex,
     options |-> config.options, columns |-> config.columns,
     sortable |-> config.sortable, filterable |-> config.filterable,
     pagination |-> config.pagination,
     value |-> "", selected |-> 0, checked |-> FALSE,
     element |-> IF config.type = "table" THEN ~createTable(config).threw ELSE TRUE,
     tbl |-> IF config.type = "table" THEN createTable(config).tbl ELSE NoTable,
     reading |-> <<>>]

\* input.name.split("_")[1] of the cell of column c: the name is
\* id + "_" + header + "_" + rowIndex
columnName(field, c) ==
    LET name == Segs(field.id) \o Segs(field.columns[c].header) \o <<"<rowIndex>">>
    IN  name[2]

\* the object getValue builds for one table row: Id first, then one member
\* per cell in column order, a later cell of the same name overwriting
rowData(field, row) ==
    LET keys == {columnName(field, c) : c \in 1..Len(field.columns)}
                \cup (IF row.id # "" THEN {"Id"} ELSE {})
        lastOf(k) == {c \in 1..Len(field.columns) : columnName(field, c) = k}
    IN  [k \in keys |->
            IF lastOf(k) # {}
            THEN row.cells[CHOOSE c \in lastOf(k) : \A d \in lastOf(k) : d <= c]
            ELSE row.id]

getValue(field) ==
    CASE field.type = "table" ->
            TableV([i \in 1..Len(field.tbl.rows) |-> rowData(field, field.tbl.rows[i])],
                   field.tbl.deletedIds)
      [] field.type = "checkbox" -> BoolV(field.checked)
      [] field.type = "file" -> Null
      [] field.type = "radio" ->
            \* querySelector("input, select, textarea") is the first radio input
            IF Len(field.options) > 0 THEN StrV(field.options[1]) ELSE Null
      [] OTHER -> StrV(field.value)

\* the segments of key lie between two underscores of the cell's name
nameHasKey(field, c, key) ==
    LET name == Segs(field.id) \o Segs(field.columns[c].header) \o <<"<rowIndex>">>
        k == Segs(key)
    IN  \E i \in 2..Len(name) :
            /\ i + Len(k) - 1 < Len(name)
            /\ SubSeq(name, i, i + Len(k) - 1) = k

\* setFieldValue, table case, one rowData: addTableRow, then every member of
\* rowData written to the first cell whose name contains "_" + key + "_"
RECURSIVE writeCells(_, _, _, _)
writeCells(field, cells, data, keys) ==
    IF keys = <<>> THEN cells
    ELSE LET hit == {c \in 1..Len(field.columns) : nameHasKey(field, c, keys[1])}
             c1 == CHOOSE c \in hit : \A d \in hit : c <= d
         IN  writeCells(field,
                        IF hit # {} THEN [cells EXCEPT ![c1] = data[keys[1]]] ELSE cells,
                        data, Tail(keys))

\* the keys of a row object in the order Object.entries lists them
entriesOf(field, data) ==
    LET own == [c \in 1..Len(field.columns) |-> columnName(field, c)]
        id  == IF "Id" \in DOMAIN data THEN <<"Id">> ELSE <<>>
    IN  id \o SelectSeq(own, LAMBDA k : k \in DOMAIN data /\ k # "Id")

RECURSIVE populateRows(_, _, _)
populateRows(field, tbl, value) ==
    IF value = <<>> THEN tbl
    ELSE LET t1 == addTableRow(tbl, field.columns, "")
             n  == Len(t1.rows)
             t2 == [t1 EXCEPT !.rows[n].cells =
                        writeCells(field, @, value[1], entriesOf(field, value[1]))]
         IN  populateRows(field, t2, Tail(value))

\* the position of the first option whose value is v, 0 when there is none
optionIndex(options, v) ==
    IF \E i \in 1..Len(options) : options[i] = v
    THEN CHOOSE i \in 1..Len(options) :
            options[i] = v /\ \A j \in 1..Len(options) : options[j] = v => i <= j
    ELSE 0

setFieldValue(field, value) ==
    CASE field.type = "radio" ->
            IF optionIndex(field.options, Str(value)) # 0
            THEN [field EXCEPT !.selected = optionIndex(field.options, Str(value))]
            ELSE field
      [] field.type = "checkbox" -> [field EXCEPT !.checked = Truthy(value)]
      [] field.type = "table" ->
            IF value.t = "array"
            THEN [field EXCEPT !.tbl =
                    populateRows(field, [@ EXCEPT !.rows = <<>>], value.rows)]
            ELSE [field EXCEPT !.tbl.rows = <<>>]
      [] field.type = "file" -> field
      [] field.type = "select" ->
            \* a select shows no option when none has the assigned value
            IF optionIndex(field.options, InputStr(value)) # 0
            THEN [field EXCEPT !.value = InputStr(value)]
            ELSE [field EXCEPT !.value = ""]
      [] OTHER -> [field EXCEPT !.value = InputStr(value)]

----------------------------------------------------------------------------
(* TableWidget: the sort, filter and CSV handlers of DynamicFormField *)

\* String operations over the strings of the configurations and of the
\* cells: a string that no table lists is its own lower case and trimmed
\* form, holds no comma, and contains only itself and the empty string
Lower == ("X" :> "x")
toLowerCase(x) == IF x \in DOMAIN Lower THEN Lower[x] ELSE x
Trimmed == (" x" :> "x" @@ "x " :> "x" @@ " " :> "")
trim(x) == IF x \in DOMAIN Trimmed THEN Trimmed[x] ELSE x
Commas == ("x,x" :> <<"x", "x">>)
splitComma(x) == IF x \in DOMAIN Commas THEN Commas[x] ELSE <<x>>
\* the pairs <<haystack, needle>> with needle a proper part of haystack
Contained == { <<"Full Name", "Name">>, <<"x,x", "x">> }
includes(haystack, needle) ==
    needle = "" \/ needle = haystack \/ <<haystack, needle>> \in Contained

\* Number(x) of the strings an input of type number holds
Numbers == ("" :> 0 @@ "9" :> 9 @@ "10" :> 10)
\* localeCompare: the strings in ascending order
LocaleOrder == <<"", "10", "9", "x", "X">>
rank(x) == CHOOSE i \in 1..Len(LocaleOrder) : LocaleOrder[i] = x

\* th.textContent of a sortable column: the header, a space and the sort
\* indicator, for the headers of the configurations
arrow(direction) == IF direction = "asc" THEN "↑" ELSE "↓"
Indicated ==
    ( <<"Name", "⇅">> :> "Name ⇅" @@ <<"Name", "↑">> :> "Name ↑" @@ <<"Name", "↓">> :> "Name ↓"
      @@ <<"Qty", "⇅">> :> "Qty ⇅" @@ <<"Qty", "↑">> :> "Qty ↑" @@ <<"Qty", "↓">> :> "Qty ↓" )
textContent(header, mark) == IF mark = "" THEN header ELSE Indicated[<<header, mark>>]
\* String.prototype.replace(" ⇅", "") on a textContent
withoutIndicator(header, mark) ==
    IF mark = "⇅" THEN header ELSE textContent(header, mark)

\* the first th whose textContent includes the header of the clicked column
thIndex(field, c) ==
    CHOOSE i \in 1..Len(field.columns) :
        /\ includes(field.columns[i].header, field.columns[c].header)
        /\ \A j \in 1..Len(field.columns) :
              includes(field.columns[j].header, field.columns[c].header) => i <= j

\* the comparator of rows.sort is negative: a goes before b. Columns of type
\* date are not configured
comesFirst(column, direction, aValue, bValue) ==
    IF column.type = "number"
    THEN IF aValue \in DOMAIN Numbers /\ bValue \in DOMAIN Numbers
         THEN IF direction = "asc" THEN Numbers[aValue] < Numbers[bValue]
              ELSE Numbers[bValue] < Numbers[aValue]
         ELSE FALSE
    ELSE IF direction = "asc" THEN rank(aValue) < rank(bValue)
         ELSE rank(bValue) < rank(aValue)

\* Array.prototype.sort is stable: each row goes behind the rows that do not
\* have to come after it
RECURSIVE sorted(_, _, _, _, _)
sorted(done, todo, column, direction, k) ==
    IF todo = <<>> THEN done
    ELSE LET row == todo[1]
             goesBefore(other) == comesFirst(column, direction, row.cells[k], other.cells[k])
         IN  sorted(SelectSeq(done, LAMBDA other : ~goesBefore(other)) \o <<row>>
                    \o SelectSeq(done, goesBefore),
                    Tail(todo), column, direction, k)

\* sortTable(table, column): the click listener of the th of column c
sortTable(field, c) ==
    LET k == thIndex(field, c)
        currentDirection == IF field.tbl.sortDir = "asc" THEN "desc" ELSE "asc"
    IN  [field EXCEPT
            !.tbl.rows = sorted(<<>>, @, field.columns[c], currentDirection, k),
            !.tbl.marks = [i \in 1..Len(field.columns) |->
                              IF i = k THEN arrow(currentDirection) ELSE "⇅"],
            !.tbl.sortDir = currentDirection]

\* the test of filterTable for one cell; filterValue is a string for
\* filterType text and [min, max] for number
shows(cellValue, filterValue, filterType) ==
    CASE filterType = "text" ->
            \/ filterValue.text = ""
            \/ includes(toLowerCase(cellValue), toLowerCase(filterValue.text))
      [] filterType = "number" ->
            /\ \/ filterValue.min = ""
               \/ /\ cellValue \in DOMAIN Numbers
                  /\ Numbers[cellValue] >= Numbers[filterValue.min]
            /\ \/ filterValue.max = ""
               \/ /\ cellValue \in DOMAIN Numbers
                  /\ Numbers[cellValue] <= Numbers[filterValue.max]
      [] OTHER -> TRUE

\* a filter that takes the failing rows out of tbody instead of hiding them
filterTableRemoving(field, columnHeader, filterValue, filterType) ==
    LET hit == {i \in 1..Len(field.columns) : field.columns[i].header = columnHeader}
        columnIndex == IF hit = {} THEN 0 ELSE Min(hit)
        cellValue(row) == IF columnIndex = 0 THEN "" ELSE row.cells[columnIndex]
    IN  [field EXCEPT !.tbl.rows =
            SelectSeq(@, LAMBDA row : shows(cellValue(row), filterValue, filterType))]

\* filterTable(columnHeader, filterValue, filterType), then updatePagination
filterTable(field, columnHeader, filterValue, filterType) ==
    LET hit == {i \in 1..Len(field.columns) : field.columns[i].header = columnHeader}
        columnIndex == IF hit = {} THEN 0 ELSE Min(hit)
        cellValue(row) == IF columnIndex = 0 THEN "" ELSE row.cells[columnIndex]
        filtered == [field.tbl EXCEPT !.rows =
                        [i \in 1..Len(field.tbl.rows) |->
                            [field.tbl.rows[i] EXCEPT !.display =
                                IF shows(cellValue(field.tbl.rows[i]), filterValue, filterType)
                                THEN "" ELSE "none"]]]
    IN  [field EXCEPT !.tbl = updatePagination(filtered, field.pagination).tbl]

\* Array.prototype.join(",") as split(",") sees it: the parts of the joined
\* string between commas
RECURSIVE join(_)
join(strings) ==
    IF strings = <<>> THEN <<"">>
    ELSE IF Len(strings) = 1 THEN splitComma(strings[1])
    ELSE splitComma(strings[1]) \o join(Tail(strings))

\* exportToCsv(table): csvContent as its lines, each as its parts between
\* commas
exportToCsv(field) ==
    LET th == [c \in 1..Len(field.columns) |->
                  withoutIndicator(field.columns[c].header, field.tbl.marks[c])]
        \* slice(0, -1)
        headers == SubSeq(th, 1, Len(th) - 1)
        visible == visibleRows(field.tbl)
    IN  <<join(headers)>> \o [k \in 1..Len(visible) |-> join(field.tbl.rows[visible[k]].cells)]

\* input.value = v: a select shows no option when none has the value, an
\* input of type number takes only a number
assign(column, v) ==
    IF Len(column.options) > 0
    THEN IF \E i \in 1..Len(column.options) : column.options[i] = v THEN v ELSE ""
    ELSE IF column.type = "number"
    THEN IF v \in DOMAIN Numbers THEN v ELSE ""
    ELSE v

\* the cells of an import that maps by position: the part at position c of
\* the line goes to column c
importCellsByPosition(field, cells, headers, line, h) ==
    [c \in 1..Len(cells) |->
        IF c <= Len(headers)
        THEN assign(field.columns[c], IF c <= Len(line) THEN line[c] ELSE "")
        ELSE cells[c]]

\* the cells of the row importCsv adds for one line: for every header in
\* turn, the input of the first column of that header takes the part of the
\* line at the header's position
RECURSIVE importCells(_, _, _, _, _)
importCells(field, cells, headers, line, h) ==
    IF h > Len(headers) THEN cells
    ELSE LET hit == {c \in 1..Len(field.columns) : field.columns[c].header = headers[h]}
             part == IF h <= Len(line) THEN line[h] ELSE ""
         IN  importCells(field,
                         IF hit = {} THEN cells
                         ELSE [cells EXCEPT ![Min(hit)] = assign(field.columns[Min(hit)], part)],
                         headers, line, h + 1)

RECURSIVE importRows(_, _, _, _)
importRows(field, tbl, headers, lines) ==
    IF lines = <<>> THEN tbl
    ELSE IF lines[1] = <<"">> THEN importRows(field, tbl, headers, Tail(lines))
    ELSE LET added == addTableRow(tbl, field.columns, "")
             n == Len(added.rows)
         IN  importRows(field,
                        [added EXCEPT !.rows[n].cells =
                            importCells(field, @, headers, lines[1], 1)],
                        headers, Tail(lines))

\* importCsv without line 744: the rows of the file are added to those in tbody
importCsvMerging(field, text) ==
    LET parsed == [l \in 1..Len(text) |-> [k \in 1..Len(text[l]) |-> trim(text[l][k])]]
        headers == parsed[1]
        validHeaders == \A c \in 1..Len(field.columns) :
                            \E h \in 1..Len(headers) : headers[h] = field.columns[c].header
    IN  IF ~validHeaders THEN [field |-> field, ok |-> FALSE]
        ELSE [field |-> [field EXCEPT !.tbl =
                            importRows(field, @, headers, Tail(parsed))],
              ok |-> TRUE]

\* importCsv with line 744 ahead of the header validation: tbody is cleared
\* before the headers are looked at
importCsvClearFirst(field, text) ==
    LET parsed == [l \in 1..Len(text) |-> [k \in 1..Len(text[l]) |-> trim(text[l][k])]]
        headers == parsed[1]
        validHeaders == \A c \in 1..Len(field.columns) :
                            \E h \in 1..Len(headers) : headers[h] = field.columns[c].header
    IN  IF ~validHeaders THEN [field |-> [field EXCEPT !.tbl.rows = <<>>], ok |-> FALSE]
        ELSE [field |-> [field EXCEPT !.tbl =
                            importRows(field, [@ EXCEPT !.rows = <<>>], headers, Tail(parsed))],
              ok |-> TRUE]

\* importCsv clearing deletedIds along with the rows
importCsvClearing(field, text) ==
    LET parsed == [l \in 1..Len(text) |-> [k \in 1..Len(text[l]) |-> trim(text[l][k])]]
        headers == parsed[1]
        validHeaders == \A c \in 1..Len(field.columns) :
                            \E h \in 1..Len(headers) : headers[h] = field.columns[c].header
    IN  IF ~validHeaders THEN [field |-> field, ok |-> FALSE]
        ELSE [field |-> [field EXCEPT !.tbl =
                            importRows(field, [@ EXCEPT !.rows = <<>>, !.deletedIds = <<>>],
                                       headers, Tail(parsed))],
              ok |-> TRUE]

\* importCsv(event, tbody) once file.text() has resolved with text; ok is
\* FALSE when the error was caught and alerted
importCsv(field, text) ==
    LET parsed == [l \in 1..Len(text) |-> [k \in 1..Len(text[l]) |-> trim(text[l][k])]]
        headers == parsed[1]
        validHeaders == \A c \in 1..Len(field.columns) :
                            \E h \in 1..Len(headers) : headers[h] = field.columns[c].header
    IN  IF ~validHeaders THEN [field |-> field, ok |-> FALSE]
        ELSE [field |-> [field EXCEPT !.tbl =
                            importRows(field, [@ EXCEPT !.rows = <<>>], headers, Tail(parsed))],
              ok |-> TRUE]

----------------------------------------------------------------------------
(* FormSession: DynamicForm *)

\* the object a method runs on; threw tells whether this run has thrown
Session ==
    [currentRows |-> currentRows, fields |-> fields, branchHistory |-> branchHistory,
     domRows |-> domRows, form |-> form, threw |-> FALSE]

\* constructor
DynamicForm ==
    [currentRows |-> <<>>, fields |-> <<>>, branchHistory |-> <<>>,
     domRows |-> <<>>, form |-> "none", threw |-> FALSE]

\* Array.prototype.slice(from, to), positions counted from 0
slice(seq, from, to) ==
    [i \in 1..(IF to > Len(seq) THEN Len(seq) - from ELSE to - from) |-> seq[from + i]]

\* this.rows[rowIndex] is defined
Defined(rowIndex) == rowIndex \in 0..(Len(rows) - 1)

FieldIds(rowConfig) == {rowConfig.fields[i].id : i \in 1..Len(rowConfig.fields)}
FieldConfig(rowConfig, id) ==
    rowConfig.fields[CHOOSE i \in 1..Len(rowConfig.fields) :
        /\ rowConfig.fields[i].id = id
        \* Map.set of a later field of the same id replaces the earlier
        /\ \A j \in 1..Len(rowConfig.fields) : rowConfig.fields[j].id = id => j <= i]

\* form.insertBefore(rowElement, form.lastElementChild): before the submit
\* button once the form has one, else before the last row element
insertBefore(dom, el, hasButton) ==
    IF hasButton \/ dom = <<>>
    THEN Append(dom, el)
    ELSE SubSeq(dom, 1, Len(dom) - 1) \o <<el, dom[Len(dom)]>>

\* the positions of the fields of a row whose render() throws
throwing(rowConfig) ==
    {i \in 1..Len(rowConfig.fields) : ~DynamicFormField(rowConfig.fields[i], 0).element}

\* renderRow(rowIndex, form); formArg is "null" when the caller found no form.
\* When field.render() throws (line 45) the fields before it are in the map,
\* and nothing is pushed or inserted
renderRow(s, rowIndex, formArg) ==
    IF ~Defined(rowIndex) THEN s
    ELSE LET whole == rows[rowIndex + 1]
             thrown == throwing(whole) # {}
             rowConfig == IF thrown
                          THEN [whole EXCEPT !.fields = SubSeq(@, 1, Min(throwing(whole)) - 1)]
                          ELSE whole
             made == [id \in FieldIds(rowConfig) |->
                        DynamicFormField(FieldConfig(rowConfig, id), rowIndex)]
             \* the elements of the fields that this.fields held before lose
             \* their entry in the map
             stale == [i \in 1..Len(s.domRows) |->
                        IF \E id \in FieldIds(rowConfig) :
                              id \in DOMAIN s.fields /\ s.fields[id].row = s.domRows[i].rowId
                        THEN [s.domRows[i] EXCEPT !.live = FALSE]
                        ELSE s.domRows[i]]
         IN  IF thrown
             THEN [s EXCEPT !.fields = made @@ s.fields,
                            !.domRows = stale,
                            !.threw = TRUE]
             ELSE [s EXCEPT !.fields = made @@ s.fields,
                            !.currentRows = Append(@, rowIndex),
                            !.domRows = IF formArg = "null" THEN stale
                                        ELSE insertBefore(stale, [rowId |-> rowIndex, live |-> TRUE],
                                                          formArg = "attached"),
                            !.threw = @ \/ formArg = "null"]

\* container.querySelector('[data-row-id="r"]') then remove(), for every r of
\* rowsToRemove in turn: the first such element in document order goes
RECURSIVE removeRows(_, _)
removeRows(dom, rowsToRemove) ==
    IF rowsToRemove = <<>> THEN dom
    ELSE LET hit == {i \in 1..Len(dom) : dom[i].rowId = rowsToRemove[1]}
             i1  == CHOOSE i \in hit : \A j \in hit : i <= j
         IN  removeRows(IF hit = {} THEN dom
                        ELSE SubSeq(dom, 1, i1 - 1) \o SubSeq(dom, i1 + 1, Len(dom)),
                        Tail(rowsToRemove))

\* Array.prototype.findIndex over currentRows, -1 when no element is rowId
findIndex(cur, rowId) ==
    IF \E i \in 1..Len(cur) : cur[i] = rowId
    THEN (CHOOSE i \in 1..Len(cur) :
            cur[i] = rowId /\ \A j \in 1..Len(cur) : cur[j] = rowId => i <= j) - 1
    ELSE -1

\* the row elements are inside the container only while the form is attached
inContainer(s) == s.form = "attached"

\* handleBranching without the check of lines 126-128: the rows after the
\* owning row are always removed and the decided row rendered anew
handleBranchingRebuild(s, rowConfig, fieldConfig, value) ==
    LET currentIndex == findIndex(s.currentRows, rowConfig.id)
        intendedBranchRow == decide(rowConfig, fieldConfig.id, value)
        recorded == IF rowConfig.hasBranchConditions
                    THEN [s EXCEPT !.branchHistory =
                            (rowConfig.id :> intendedBranchRow) @@ @]
                    ELSE s
        rowsToRemove == slice(s.currentRows, currentIndex + 1, Len(s.currentRows))
        pruned == [recorded EXCEPT
                     !.domRows = IF inContainer(s) THEN removeRows(@, rowsToRemove) ELSE @,
                     !.currentRows = slice(@, 0, currentIndex + 1)]
    IN  IF currentIndex = -1 THEN s
        ELSE IF intendedBranchRow < Len(rows)
        THEN renderRow(pruned, intendedBranchRow,
                       IF inContainer(s) THEN "attached" ELSE "null")
        ELSE pruned

\* handleBranching without the return of line 81
handleBranchingNoGuard(s, rowConfig, fieldConfig, value) ==
    LET currentIndex == findIndex(s.currentRows, rowConfig.id)
        intendedBranchRow == decide(rowConfig, fieldConfig.id, value)
        recorded == IF rowConfig.hasBranchConditions
                    THEN [s EXCEPT !.branchHistory =
                            (rowConfig.id :> intendedBranchRow) @@ @]
                    ELSE s
        rowsToRemove == slice(s.currentRows, currentIndex + 1, Len(s.currentRows))
        pruned == [recorded EXCEPT
                     !.domRows = IF inContainer(s) THEN removeRows(@, rowsToRemove) ELSE @,
                     !.currentRows = slice(@, 0, currentIndex + 1)]
    IN  IF /\ currentIndex + 2 <= Len(s.currentRows)
           /\ s.currentRows[currentIndex + 2] = intendedBranchRow
        THEN recorded
        ELSE IF intendedBranchRow < Len(rows)
        THEN renderRow(pruned, intendedBranchRow,
                       IF inContainer(s) THEN "attached" ELSE "null")
        ELSE pruned

handleBranching(s, rowConfig, fieldConfig, value) ==
    LET currentIndex == findIndex(s.currentRows, rowConfig.id)
        intendedBranchRow == decide(rowConfig, fieldConfig.id, value)
        recorded == IF rowConfig.hasBranchConditions
                    THEN [s EXCEPT !.branchHistory =
                            (rowConfig.id :> intendedBranchRow) @@ @]
                    ELSE s
        rowsToRemove == slice(s.currentRows, currentIndex + 1, Len(s.currentRows))
        pruned == [recorded EXCEPT
                     !.domRows = IF inContainer(s) THEN removeRows(@, rowsToRemove) ELSE @,
                     !.currentRows = slice(@, 0, currentIndex + 1)]
    IN  IF currentIndex = -1 THEN s
        ELSE IF /\ currentIndex + 2 <= Len(s.currentRows)
                /\ s.currentRows[currentIndex + 2] = intendedBranchRow
        THEN recorded
        ELSE IF intendedBranchRow < Len(rows)
        THEN renderRow(pruned, intendedBranchRow,
                       IF inContainer(s) THEN "attached" ELSE "null")
        ELSE pruned

\* JSON.stringify(this.branchHistory): integer keys are written in
\* ascending order
RECURSIVE stringify(_, _)
stringify(bh, keys) ==
    IF keys = {} THEN <<>>
    ELSE LET k == CHOOSE x \in keys : \A y \in keys : x <= y
         IN  <<(<<k, bh[k]>>)>> \o stringify(bh, keys \ {k})

handleSubmit(s) ==
    ("branchHistory" :> JsonV(stringify(s.branchHistory, DOMAIN s.branchHistory)))
    @@ [id \in DOMAIN s.fields |-> getValue(s.fields[id])]

\* data[key]
Get(data, key) == IF key \in DOMAIN data THEN data[key] ELSE Undefined

\* the forEach of lines 176-181 and 196-201 over the fields of one row
RECURSIVE setRowValues(_, _, _)
setRowValues(s, fieldConfigs, data) ==
    IF fieldConfigs = <<>> THEN s
    ELSE LET id == fieldConfigs[1].id
             s1 == IF id \in DOMAIN s.fields /\ Get(data, id).t # "undefined"
                   THEN [s EXCEPT !.fields[id] = setFieldValue(@, Get(data, id))]
                   ELSE s
         IN  setRowValues(s1, Tail(fieldConfigs), data)

\* the forEach of lines 193-203 over currentRows.slice(1)
RECURSIVE setLaterRows(_, _, _)
setLaterRows(s, later, data) ==
    IF later = <<>> THEN s
    ELSE setLaterRows(IF Defined(later[1])
                      THEN setRowValues(s, rows[later[1] + 1].fields, data)
                      ELSE s,
                      Tail(later), data)

\* the forEach of lines 184-205: it ends where handleBranching throws
RECURSIVE triggerBranching(_, _, _)
triggerBranching(s, fieldConfigs, data) ==
    IF fieldConfigs = <<>> \/ s.threw THEN s
    ELSE LET fieldConfig == fieldConfigs[1]
             branched == handleBranching(s, rows[1], fieldConfig,
                                         Raw(Get(data, fieldConfig.id)))
             s1 == IF /\ fieldConfig.type \in {"radio", "select"}
                      /\ Truthy(Get(data, fieldConfig.id))
                   THEN IF branched.threw THEN branched
                        ELSE setLaterRows(branched,
                                          slice(branched.currentRows, 1,
                                                Len(branched.currentRows)), data)
                   ELSE s
         IN  triggerBranching(s1, Tail(fieldConfigs), data)

setFormData(s, data) ==
    LET cleared == [s EXCEPT
                      !.domRows = IF inContainer(s)
                                  THEN removeRows(@, slice(s.currentRows, 1, Len(s.currentRows)))
                                  ELSE @,
                      !.currentRows = slice(@, 0, 1)]
    IN  triggerBranching(setRowValues(cleared, rows[1].fields, data), rows[1].fields, data)

\* render() without existingData; when renderRow throws the container stays
\* empty
render(s) ==
    LET emptied == [s EXCEPT !.domRows = <<>>, !.form = "detached"]
        first == renderRow(emptied, 0, "detached")
    IN  IF first.threw
        THEN [first EXCEPT !.form = "none"]
        ELSE [first EXCEPT !.form = "attached"]

----------------------------------------------------------------------------
(* The configurations the sessions run on *)

\* the shape of the form of src/index.html, cut down: a radio field that
\* branches to rows 1 and 2, a select with an or-condition, a table row
FormConfig ==
    << Row(0, << Field("userType", "radio", <<"individual", "business", "nonprofit">>, NoColumns) >>,
           TRUE, << Cond("userType", "individual", 1), Cond("userType", "business", 2) >>),
       Row(1, << Field("employmentStatus", "select", <<"employed", "retired">>, NoColumns) >>,
           TRUE, << ArrCond("employmentStatus", <<"employed", "self-employed">>, "or", 3) >>),
       Row(2, << Field("businessInfo", "table", <<>>, << Column("Name", "text", <<>>) >>),
                 Field("otherIncome", "checkbox", <<>>, NoColumns) >>,
           FALSE, <<>>),
       Row(3, << Field("ssn", "text", <<>>, NoColumns) >>, FALSE, <<>>) >>

\* what a user types into a text input or a table cell
Texts == {"", "x"}
\* what an input of type number holds
NumberTexts == {"", "9", "10"}
CellTexts(column) == IF column.type = "number" THEN NumberTexts ELSE Texts

----------------------------------------------------------------------------
(* History variables *)

\* a handler run: the row (by position in rows) and field it was registered
\* for, the value delivered, the row it decided on, currentRows as it found it
Event(op, rowIndex, fieldId, value, decided, before) ==
    [op |-> op, row |-> rowIndex, fieldId |-> fieldId, value |-> value,
     decided |-> decided, before |-> before]
NoEvent == Event("none", -1, "", "", -1, <<>>)
Other(op) == Event(op, -1, "", "", -1, <<>>)

NoData == <<>>
\* the service before submitForm is called
NoService ==
    [stage |-> "idle", data |-> <<>>, processed |-> <<>>, sent |-> <<>>, pending |-> {},
     succeeded |-> {}, parentItemId |-> "", resolvedWith |-> ""]
Overflow == <<"...">>
NoMemo == NoEvent

\* the change events so far, forgotten once there are more than MaxEvents
Remember(ev) ==
    IF events = Overflow \/ Len(events) >= MaxEvents THEN Overflow ELSE Append(events, ev)

----------------------------------------------------------------------------
(* Actions *)

\* the session s replaces the current one
Becomes(s) ==
    /\ currentRows' = s.currentRows
    /\ fields' = s.fields
    /\ branchHistory' = s.branchHistory
    /\ domRows' = s.domRows
    /\ form' = s.form
    /\ threw' = (threw \/ s.threw)

\* the element of the field this.fields holds under id is in the document
Attached(id) ==
    /\ form = "attached"
    /\ id \in DOMAIN fields
    /\ \E i \in 1..Len(domRows) : domRows[i].rowId = fields[id].row /\ domRows[i].live

\* form.render()
Render ==
    /\ form = "none"
    /\ Becomes(render(Session))
    /\ last' = Other("render")
    /\ formData' = NoData
    /\ UNCHANGED <<rows, service, events, memo>>

\* the change listener of a radio input or a select (renderRow, lines 49-62),
\* run after the control took the value
Change(id, value, changed) ==
    LET rowConfig == rows[fields[id].row + 1]
        fieldConfig == FieldConfig(rowConfig, id)
        decided == decide(rowConfig, id, value)
        seen == Event("change", fields[id].row, id, value, decided, currentRows)
    IN  /\ Becomes(handleBranching([Session EXCEPT !.fields[id] = changed],
                                   rowConfig, fieldConfig, value))
        /\ last' = seen
        /\ events' = Remember(<<id, value>>)
        /\ memo' \in IF memo = NoMemo THEN {NoMemo, seen} ELSE {memo}
        /\ formData' = NoData
        /\ UNCHANGED <<rows, service>>

\* the user picks option k of a radio group
ChangeRadio ==
    \E id \in DOMAIN fields : \E k \in 1..Len(fields[id].options) :
        /\ Attached(id)
        /\ fields[id].type = "radio"
        /\ fields[id].selected # k
        /\ Change(id, fields[id].options[k], [fields[id] EXCEPT !.selected = k])

\* the user picks an option of a select, the placeholder included
ChangeSelect ==
    \E id \in DOMAIN fields :
      \E value \in {fields[id].options[k] : k \in 1..Len(fields[id].options)} \cup {""} :
        /\ Attached(id)
        /\ fields[id].type = "select"
        /\ fields[id].value # value
        /\ Change(id, value, [fields[id] EXCEPT !.value = value])

\* a handler of the field that the session does not hear; ev records it
Handled(id, changed, ev) ==
    /\ Attached(id)
    /\ fields' = [fields EXCEPT ![id] = changed]
    /\ last' = ev
    /\ formData' = NoData
    /\ UNCHANGED <<rows, service, currentRows, branchHistory, domRows, form, threw, events, memo>>

\* an edit that no listener of the session hears
Edit(id, changed) == Handled(id, changed, Other("edit"))

\* the user types into a text input
Input ==
    \E id \in DOMAIN fields : \E text \in Texts :
        /\ fields[id].type = "text"
        /\ fields[id].value # text
        /\ Edit(id, [fields[id] EXCEPT !.value = text])

\* the user ticks or unticks a checkbox
Toggle ==
    \E id \in DOMAIN fields :
        /\ fields[id].type = "checkbox"
        /\ Edit(id, [fields[id] EXCEPT !.checked = ~@])

\* a table row the page shows: neither filtered out nor on another page
shown(row) == row.display # "none" /\ ~row.dnone

\* the Add Row button: addTableRow(tbody)
AddRow ==
    \E id \in DOMAIN fields :
        /\ fields[id].type = "table"
        /\ Len(fields[id].tbl.rows) < MaxTableRows
        /\ Edit(id, [fields[id] EXCEPT !.tbl = addTableRow(@, fields[id].columns, "")])

\* the Delete button without lines 380-382: the identity is not recorded
deleteRowUnrecorded(tbl, i) ==
    [tbl EXCEPT !.rows = SubSeq(@, 1, i - 1) \o SubSeq(@, i + 1, Len(@))]

\* the Delete button of row i: the listener of addTableRow, lines 379-384
deleteRow(tbl, i) ==
    [tbl EXCEPT
        !.rows = SubSeq(@, 1, i - 1) \o SubSeq(@, i + 1, Len(@)),
        !.deletedIds = IF tbl.rows[i].id # "" /\ \A j \in 1..Len(@) : @[j] # tbl.rows[i].id
                       THEN Append(@, tbl.rows[i].id) ELSE @]

\* the row whose Delete button is clicked is one the page shows
DeleteRow ==
    \E id \in DOMAIN fields : \E i \in 1..Len(fields[id].tbl.rows) :
        /\ fields[id].type = "table"
        /\ shown(fields[id].tbl.rows[i])
        /\ Handled(id, [fields[id] EXCEPT !.tbl = deleteRow(@, i)],
                   Event("delete", fields[id].row, id, "", i, <<>>))

\* the user types into a table cell
EditCell ==
    \E id \in DOMAIN fields : \E i \in 1..Len(fields[id].tbl.rows) :
      \E c \in 1..Len(fields[id].columns) : \E text \in CellTexts(fields[id].columns[c]) :
        /\ fields[id].type = "table"
        /\ shown(fields[id].tbl.rows[i])
        /\ fields[id].tbl.rows[i].cells[c] # text
        /\ Edit(id, [fields[id] EXCEPT !.tbl.rows[i].cells[c] = text])

\* the submit listener: handleSubmit(event)
Submit ==
    /\ form = "attached"
    /\ formData' = handleSubmit(Session)
    /\ last' = Other("submit")
    /\ UNCHANGED <<rows, service, currentRows, fields, branchHistory, domRows, form, threw,
                   events, memo>>

\* setFormData(data) with the bag handleSubmit just returned
SetFormData ==
    /\ form = "attached"
    /\ formData # NoData
    /\ Becomes(setFormData(Session, formData))
    /\ last' = Other("populate")
    /\ formData' = NoData
    /\ events' = Overflow
    /\ UNCHANGED <<rows, service, memo>>

----------------------------------------------------------------------------
(* The session on the form configuration *)

InitSession ==
    /\ currentRows = DynamicForm.currentRows
    /\ fields = DynamicForm.fields
    /\ branchHistory = DynamicForm.branchHistory
    /\ domRows = DynamicForm.domRows
    /\ form = DynamicForm.form
    /\ threw = DynamicForm.threw
    /\ formData = NoData
    /\ last = NoEvent
    /\ events = <<>>
    /\ memo = NoMemo
    /\ service = NoService

Init ==
    /\ rows = FormConfig
    /\ InitSession

Next ==
    \/ Render
    \/ ChangeRadio
    \/ ChangeSelect
    \/ Input
    \/ Toggle
    \/ AddRow
    \/ DeleteRow
    \/ EditCell
    \/ Submit
    \/ SetFormData

Spec == Init /\ [][Next]_vars

----------------------------------------------------------------------------
(* Claims about the session *)

\* the ids of the fields of the rows that currentRows lists
LiveFieldIds ==
    UNION {FieldIds(rows[currentRows[i] + 1]) :
             i \in {j \in 1..Len(currentRows) : Defined(currentRows[j])}}

\* the ids of the rows that currentRows lists
RowIn(cur, rowId) == \E i \in 1..Len(cur) : cur[i] = rowId

\* C1: with row 0 holding the radio field userType and the conditions
\* individual -> row 1, business -> row 2, after the change events
\* "individual" then "business" currentRows is [0,2], branchHistory is {0: 2}
\* and no field of row 1 is left in the fields map.
C1_IndividualThenBusiness ==
    events = << <<"userType", "individual">>, <<"userType", "business">> >>
    => /\ currentRows = <<0, 2>>
       /\ branchHistory = (0 :> 2)
       /\ \A id \in FieldIds(rows[2]) : id \notin DOMAIN fields

\* C2: every entry of the fields map belongs to a row whose id is in
\* currentRows.
C2_FieldsOfCurrentRows ==
    \A id \in DOMAIN fields : RowIn(currentRows, rows[fields[id].row + 1].id)

\* C3: the bag submit() returns has exactly the keys that are field ids of the
\* rows in currentRows, plus branchHistory, which holds the serialized
\* branchHistory.
C3_SubmitKeys ==
    formData # NoData
    => /\ DOMAIN formData = LiveFieldIds \cup {"branchHistory"}
       /\ formData["branchHistory"] = JsonV(stringify(branchHistory, DOMAIN branchHistory))

\* C4: populating a fresh session with the bag submit() returns gives the same
\* currentRows and, for every live field, the same extracted value.
C4_RoundTrip ==
    form = "attached"
    => LET populated == setFormData(render(DynamicForm), handleSubmit(Session))
       IN  /\ populated.currentRows = currentRows
           /\ \A id \in LiveFieldIds :
                /\ id \in DOMAIN populated.fields
                /\ getValue(populated.fields[id]) = getValue(fields[id])

\* C5: a change event whose decided row already follows the owning row leaves
\* currentRows, the row elements and every field as they are (the control
\* that changed keeps its new value); it only records branchHistory[row.id]
\* when the row has branchConditions.
C5_NoOpShortCircuit ==
    [][ LET rowConfig == rows[last'.row + 1]
            i == findIndex(currentRows, rowConfig.id)
        IN  ( /\ last'.op = "change"
              /\ last' # last
              /\ i # -1
              /\ i + 2 <= Len(currentRows)
              /\ currentRows[i + 2] = last'.decided )
            => /\ currentRows' = currentRows
               /\ domRows' = domRows
               /\ DOMAIN fields' = DOMAIN fields
               /\ \A id \in DOMAIN fields \ {last'.fieldId} : fields'[id] = fields[id]
               /\ fields'[last'.fieldId].row = fields[last'.fieldId].row
               /\ branchHistory' = IF rowConfig.hasBranchConditions
                                   THEN (rowConfig.id :> last'.decided) @@ branchHistory
                                   ELSE branchHistory
      ]_vars

\* a change event of row 0 decided on row 1 again, and the rows after row 0
\* and what was entered in them are still there
C5_Witness ==
    /\ last.op = "change"
    /\ last.row = 0
    /\ last.value = "nonprofit"
    /\ last.before = <<0, 1, 3>>
    /\ currentRows = <<0, 1, 3>>
    /\ fields["employmentStatus"].value = "employed"
    /\ fields["ssn"].value = "x"

----------------------------------------------------------------------------
(* The decision function on drawn branch conditions *)

\* the shapes a branch condition takes; the controlling field is f or g
CondShapes ==
    { Cond("f", "a", 0), Cond("f", "b", 0), DefaultCond("f", 0),
      ArrCond("f", <<"a", "b">>, "or", 0), ArrCond("f", <<"a", "b">>, "and", 0),
      ArrCond("f", <<"a">>, "and", 0),
      [ArrCond("f", <<"b">>, "or", 0) EXCEPT !.defaultBranch = TRUE],
      Cond("g", "a", 0), DefaultCond("g", 0) }

\* the lists of at most n shapes
RECURSIVE CondLists(_)
CondLists(n) ==
    IF n = 0 THEN {<<>>}
    ELSE CondLists(n - 1)
         \cup {Append(l, c) : l \in {k \in CondLists(n - 1) : Len(k) = n - 1}, c \in CondShapes}

\* the condition at position p branches to row first + p - 1, so that the
\* decided row tells which condition was taken
Numbered(conds, first) ==
    [p \in 1..Len(conds) |-> [conds[p] EXCEPT !.nextRow = first + p - 1]]

InitDecide ==
    /\ \E id \in {0, 3} : \E hasBC \in BOOLEAN : \E conds \in CondLists(MaxConds) :
         \E first \in {0, 5} :
           /\ hasBC \/ (conds = <<>> /\ first = 0)
           /\ rows = << Row(id, <<>>, hasBC, Numbered(conds, first)) >>
    /\ InitSession

\* decide applied to the drawn row, a controlling field and a value
Decide ==
    /\ last = NoEvent
    /\ \E fieldId \in {"f", "g"} : \E value \in {"a", "b", "c"} :
         last' = Event("decide", 0, fieldId, value, decide(rows[1], fieldId, value), <<>>)
    /\ UNCHANGED <<rows, service, currentRows, fields, branchHistory, domRows, form, threw,
                   formData, events, memo>>

NextDecide == Decide

SpecDecide == InitDecide /\ [][NextDecide]_vars

\* the value test of a condition: equality for a scalar, membership for an
\* array with operator or, equality with every element for any other array
ValueMatches(condition, value) ==
    IF condition.isArray
    THEN IF condition.operator = "or"
         THEN \E i \in 1..Len(condition.values) : condition.values[i] = value
         ELSE \A i \in 1..Len(condition.values) : condition.values[i] = value
    ELSE condition.value = value

Decided == last.op \in {"decide", "change"}
DecidedRow == rows[last.row + 1]
\* the conditions of the controlling field whose value test the value passes
Matching ==
    {i \in 1..Len(DecidedRow.branchConditions) :
        /\ DecidedRow.branchConditions[i].fieldId = last.fieldId
        /\ ValueMatches(DecidedRow.branchConditions[i], last.value)}
\* those of them that are not marked defaultBranch
MatchingByValue == {i \in Matching : ~DecidedRow.branchConditions[i].defaultBranch}

\* C7: the conditions of the controlling field are scanned in declaration
\* order, a scalar condition matching iff the value equals it and an or-array
\* iff the value is a member; the nextRow of the first matching one is decided.
C7_FirstMatchWins ==
    (Decided /\ DecidedRow.hasBranchConditions /\ Matching # {})
    => last.decided = DecidedRow.branchConditions[Min(Matching)].nextRow

\* C8: a defaultBranch condition is only a fallback: wherever it is declared,
\* when a value-matching condition of the controlling field matches, the
\* nextRow of that condition is decided.
C8_DefaultOnlyFallback ==
    (Decided /\ DecidedRow.hasBranchConditions /\ MatchingByValue # {})
    => last.decided = DecidedRow.branchConditions[Min(MatchingByValue)].nextRow

\* C9: when the row has no branchConditions, or no condition of the
\* controlling field matches and the field has no defaultBranch condition,
\* the decided row is rowConfig.id + 1.
C9_SequentialFallback ==
    ( /\ Decided
      /\ \/ ~DecidedRow.hasBranchConditions
         \/ /\ Matching = {}
            /\ \A i \in 1..Len(DecidedRow.branchConditions) :
                  DecidedRow.branchConditions[i].fieldId = last.fieldId
                  => ~DecidedRow.branchConditions[i].defaultBranch )
    => last.decided = DecidedRow.id + 1

\* a row with conditions, among them one of the controlling field that does
\* not match and a defaultBranch of another field, decided by id + 1
C9_Witness ==
    /\ last.op = "decide"
    /\ DecidedRow.hasBranchConditions
    /\ Matching = {}
    /\ \E i \in 1..Len(DecidedRow.branchConditions) :
          /\ DecidedRow.branchConditions[i].fieldId = last.fieldId
          /\ ~DecidedRow.branchConditions[i].isArray
    /\ \E i \in 1..Len(DecidedRow.branchConditions) :
          /\ DecidedRow.branchConditions[i].fieldId # last.fieldId
          /\ DecidedRow.branchConditions[i].defaultBranch
    /\ last.decided = DecidedRow.id + 1

----------------------------------------------------------------------------
(* The session on a configuration whose row ids are not the positions *)

\* the rows of FormConfig with the ids of the rows at positions 1 and 2
\* exchanged; the conditions name rows by id
IdsConfig ==
    << Row(0, << Field("userType", "radio", <<"individual", "business", "nonprofit">>, NoColumns) >>,
           TRUE, << Cond("userType", "individual", 2), Cond("userType", "business", 1) >>),
       Row(2, << Field("employmentStatus", "select", <<"employed", "retired">>, NoColumns) >>,
           TRUE, << ArrCond("employmentStatus", <<"employed", "self-employed">>, "or", 3) >>),
       Row(1, << Field("businessInfo", "table", <<>>, << Column("Name", "text", <<>>) >>),
                 Field("otherIncome", "checkbox", <<>>, NoColumns) >>,
           FALSE, <<>>),
       Row(3, << Field("ssn", "text", <<>>, NoColumns) >>, FALSE, <<>>) >>

InitIds ==
    /\ rows \in {FormConfig, IdsConfig}
    /\ InitSession

SpecIds == InitIds /\ [][Next]_vars

\* C10: rows are addressed by id: currentRows holds ids of rows, and the row
\* instantiated for an entry of currentRows is the RowConfig with that id.
C10_AddressedById ==
    \A i \in 1..Len(currentRows) :
        \E p \in 1..Len(rows) :
            /\ rows[p].id = currentRows[i]
            /\ \A id \in FieldIds(rows[p]) : id \in DOMAIN fields /\ fields[id].row = p - 1

----------------------------------------------------------------------------
(* The session when render() is called on it again *)

\* render() is called again only while currentRows is shorter than this
MaxPath == 4

\* form.render() on a session that was rendered before
RenderAgain ==
    /\ form # "none"
    /\ Len(currentRows) < MaxPath
    /\ Becomes(render(Session))
    /\ last' = Other("render")
    /\ formData' = NoData
    /\ events' = <<>>
    /\ UNCHANGED <<rows, service, memo>>

\* the calls of render(), the field changes and the populate calls
NextRerender ==
    \/ Render
    \/ RenderAgain
    \/ ChangeRadio
    \/ ChangeSelect
    \/ Submit
    \/ SetFormData

SpecRerender == Init /\ [][NextRerender]_vars

\* C11: render() sets currentRows to exactly [0], also when it is called on a
\* session that was rendered before; and in every state of a rendered session
\* the first entry of currentRows is 0.
C11_InitializeResets ==
    /\ last.op = "render" => currentRows = <<0>>
    /\ form = "attached" => (currentRows # <<>> /\ currentRows[1] = 0)

----------------------------------------------------------------------------
(* The session on configurations with branches back and malformed ones *)

\* row 0 branches to itself, row 1 branches back to row 0
LoopConfig ==
    << Row(0, << Field("again", "radio", <<"stay", "next">>, NoColumns) >>,
           TRUE, << Cond("again", "stay", 0), Cond("again", "next", 1) >>),
       Row(1, << Field("back", "select", <<"yes", "no">>, NoColumns),
                 Field("note", "text", <<>>, NoColumns),
                 Field("agree", "checkbox", <<>>, NoColumns),
                 Field("items", "table", <<>>, << Column("Name", "text", <<>>) >>) >>,
           TRUE, << Cond("back", "yes", 0) >>) >>

\* two rows have the id 1
DuplicateConfig ==
    << Row(0, << Field("kind", "radio", <<"a", "b">>, NoColumns) >>,
           TRUE, << Cond("kind", "a", 1) >>),
       Row(1, << Field("first", "select", <<"x">>, NoColumns) >>, FALSE, <<>>),
       Row(1, << Field("second", "select", <<"x">>, NoColumns) >>, FALSE, <<>>) >>

\* a condition of row 0 names row 7, and there is no such row
DanglingConfig ==
    << Row(0, << Field("kind", "radio", <<"a", "b">>, NoColumns) >>,
           TRUE, << Cond("kind", "a", 7) >>),
       Row(1, << Field("first", "select", <<"x">>, NoColumns) >>, FALSE, <<>>) >>

InitConfigs ==
    /\ rows \in {LoopConfig, DuplicateConfig, DanglingConfig}
    /\ InitSession

SpecConfigs == InitConfigs /\ [][Next]_vars

\* C12: currentRows never holds the same row id twice, also when a condition
\* names the owning row or a row earlier in the path as nextRow.
C12_UniqueRows ==
    \A i, j \in 1..Len(currentRows) : currentRows[i] = currentRows[j] => i = j

\* the row configuration has two rows of one id, or a condition whose nextRow
\* is the id of no row
Malformed ==
    \/ \E p, q \in 1..Len(rows) : p # q /\ rows[p].id = rows[q].id
    \/ \E p \in 1..Len(rows) : \E c \in 1..Len(rows[p].branchConditions) :
          \A q \in 1..Len(rows) : rows[q].id # rows[p].branchConditions[c].nextRow

\* C15: a session on a malformed row configuration never initializes and
\* processes no field-change event.
C15_MalformedRejected ==
    Malformed => /\ form = "none"
                 /\ currentRows = <<>>
                 /\ last.op # "change"

----------------------------------------------------------------------------
(* Claims about the path and about stale events *)

\* the value a radio group or a select shows now; NoValue when no radio input
\* is checked
ControlValue(field) ==
    IF field.type = "radio"
    THEN IF field.selected = 0 THEN NoValue ELSE field.options[field.selected]
    ELSE field.value

\* the nextRow of the branch conditions of the row of id rowId that the
\* current value of their controlling field satisfies
SatisfiedNext(rowId) ==
    UNION { { rows[p].branchConditions[c].nextRow :
                c \in { d \in 1..Len(rows[p].branchConditions) :
                          LET condition == rows[p].branchConditions[d]
                          IN  /\ condition.fieldId \in FieldIds(rows[p])
                              /\ condition.fieldId \in DOMAIN fields
                              /\ \/ ValueMatches(condition,
                                                 ControlValue(fields[condition.fieldId]))
                                 \/ condition.defaultBranch } } :
            p \in { q \in 1..Len(rows) : rows[q].id = rowId } }

\* C13: every entry of currentRows after the first is the nextRow of a branch
\* condition of the row before it that the current value of the controlling
\* field satisfies, or the id of the row before it plus one.
C13_PathJustified ==
    \A i \in 1..(Len(currentRows) - 1) :
        \/ currentRows[i + 1] = currentRows[i] + 1
        \/ currentRows[i + 1] \in SatisfiedNext(currentRows[i])

\* C14: a change event whose owning row id is not in currentRows leaves
\* currentRows, the fields map and branchHistory unchanged (the control that
\* changed keeps its new value) and raises no error.
C14_StaleEventIgnored ==
    [][ ( /\ last'.op = "change"
          /\ last' # last
          /\ findIndex(currentRows, rows[last'.row + 1].id) = -1 )
        => /\ currentRows' = currentRows
           /\ branchHistory' = branchHistory
           /\ domRows' = domRows
           /\ DOMAIN fields' = DOMAIN fields
           /\ \A id \in DOMAIN fields \ {last'.fieldId} : fields'[id] = fields[id]
           /\ fields'[last'.fieldId].row = fields[last'.fieldId].row
           /\ threw' = threw
      ]_vars

\* a change event of a row whose id is not in currentRows was delivered, and
\* the path is as it was
C14_Witness ==
    /\ last.op = "change"
    /\ findIndex(last.before, rows[last.row + 1].id) = -1
    /\ currentRows = last.before
    /\ Len(currentRows) = 2
    /\ ~threw

----------------------------------------------------------------------------
(* Claims about the values of the fields *)

\* C16: getValue returns a boolean for a checkbox, null for a file input with
\* no file, {rows, deletedIds} for a table, and for every other kind the
\* scalar entered or selected; for a radio group with an option selected, the
\* value of that option.
C16_ExtractValue ==
    \A id \in DOMAIN fields :
        LET field == fields[id]
            value == getValue(field)
        IN  CASE field.type = "checkbox" -> value = BoolV(field.checked)
              [] field.type = "file" -> value = Null
              [] field.type = "table" ->
                    /\ value.t = "object"
                    /\ Len(value.rows) = Len(field.tbl.rows)
                    /\ \A i \in 1..Len(value.rows) : \A c \in 1..Len(field.columns) :
                          value.rows[i][field.columns[c].header] = field.tbl.rows[i].cells[c]
                    /\ value.deletedIds = field.tbl.deletedIds
              [] field.type = "radio" ->
                    field.selected # 0 => value = StrV(field.options[field.selected])
              [] OTHER -> value = StrV(field.value)

----------------------------------------------------------------------------
(* The session on a form whose row 0 holds one table field *)

TableForm(tableField) == << Row(0, << tableField >>, FALSE, <<>>) >>

\* a sortable, filterable table of one text column
ListTable ==
    TableField("items", << FilterColumn("Name", "text", <<>>) >>, TRUE, TRUE, FALSE)
\* the same table with pagination: true
PagedTable == [ListTable EXCEPT !.pagination = TRUE]

\* the identities of persisted records
Identities == {"42"}
\* what a user types into the filter input of a text column
FilterTexts == {"", "x"}

\* CSV files: one of the columns Qty, Note and Name, in that order, with an
\* empty line and a cell with a leading space; one of the column Qty alone
GoodFile == << <<"Qty", "Note", "Name">>, <<"9", "n", "x">>, <<"">>, <<"10", "n", " x">> >>
BadFile == << <<"Qty">>, <<"9">> >>
\* the files a user imports: the file the table just exported, and the two
CsvFiles(field) == << exportToCsv(field), GoodFile, BadFile >>

\* a caller adds the row of a persisted record: addTableRow(tbody, existingId)
AddExisting ==
    \E id \in DOMAIN fields : \E identity \in Identities :
        /\ fields[id].type = "table"
        /\ Len(fields[id].tbl.rows) < MaxTableRows
        /\ Handled(id, [fields[id] EXCEPT !.tbl = addTableRow(@, fields[id].columns, identity)],
                   Event("add", fields[id].row, id, identity, -1, <<>>))

\* a click on the th of column c; the click and the direction it gave are
\* remembered among the events
SortTable ==
    \E id \in DOMAIN fields : \E c \in 1..Len(fields[id].columns) :
        /\ fields[id].type = "table"
        /\ fields[id].sortable
        /\ Attached(id)
        /\ fields' = [fields EXCEPT ![id] = sortTable(fields[id], c)]
        /\ last' = Event("sort", fields[id].row, id, "", c, <<>>)
        /\ events' = Remember(<<id, c, fields'[id].tbl.sortDir>>)
        /\ formData' = NoData
        /\ UNCHANGED <<rows, service, currentRows, branchHistory, domRows, form, threw, memo>>

\* the user types into the filter input of the text column c
FilterTable ==
    \E id \in DOMAIN fields : \E c \in 1..Len(fields[id].columns) : \E value \in FilterTexts :
        /\ fields[id].type = "table"
        /\ fields[id].filterable
        /\ fields[id].columns[c].filterable
        /\ fields[id].columns[c].type \notin {"number", "date"}
        /\ fields[id].tbl.filters[c].text # value
        /\ Handled(id, filterTable([fields[id] EXCEPT !.tbl.filters[c].text = value],
                                   fields[id].columns[c].header,
                                   [NoFilter EXCEPT !.text = value], "text"),
                   Event("filter", fields[id].row, id, value, c, <<>>))

\* the Export CSV button: the table stays as it is
ExportCsv ==
    \E id \in DOMAIN fields :
        /\ fields[id].type = "table"
        /\ Handled(id, fields[id], Other("export"))

\* the user picks file k, and file.text() resolves: importCsv runs on the
\* table as it is then, and alerts when it caught an error
ImportCsv ==
    \E id \in DOMAIN fields : \E k \in 1..Len(CsvFiles(fields[id])) :
        /\ fields[id].type = "table"
        /\ LET done == importCsv(fields[id], CsvFiles(fields[id])[k])
           IN  Handled(id, done.field,
                       Event("import", fields[id].row, id,
                             IF done.ok THEN "imported" ELSE "alert", k, <<>>))

\* the session after construction; the events are not remembered
InitTable ==
    /\ rows \in {TableForm(ListTable), TableForm(PagedTable)}
    /\ currentRows = DynamicForm.currentRows
    /\ fields = DynamicForm.fields
    /\ branchHistory = DynamicForm.branchHistory
    /\ domRows = DynamicForm.domRows
    /\ form = DynamicForm.form
    /\ threw = DynamicForm.threw
    /\ formData = NoData
    /\ last = NoEvent
    /\ events = Overflow
    /\ memo = NoMemo
    /\ service = NoService

NextTable ==
    \/ Render
    \/ AddRow
    \/ AddExisting
    \/ DeleteRow
    \/ EditCell
    \/ SortTable
    \/ FilterTable
    \/ ExportCsv
    \/ ImportCsv
    \/ Submit
    \/ SetFormData

SpecTable == InitTable /\ [][NextTable]_vars

----------------------------------------------------------------------------
(* Claims about the rows of a table *)

\* seq without its element i
without(seq, i) == SubSeq(seq, 1, i - 1) \o SubSeq(seq, i + 1, Len(seq))
Elements(seq) == {seq[i] : i \in 1..Len(seq)}
\* the line of row i in the exported file, 0 when the row is not exported
exportLine(field, i) ==
    LET visible == visibleRows(field.tbl)
    IN  IF \E k \in 1..Len(visible) : visible[k] = i
        THEN 1 + CHOOSE k \in 1..Len(visible) : visible[k] = i
        ELSE 0

\* C17: the Delete button of a row removes that row from the rows of the
\* table; the identity of a tagged row is then in deletedIds, which gains
\* nothing else, and deleting an untagged row leaves deletedIds as it was;
\* neither getValue().rows nor the exported CSV holds the row afterwards
C17_DeleteRow ==
    [][last'.op = "delete" =>
        LET old == fields[last'.fieldId]
            new == fields'[last'.fieldId]
            i == last'.decided
            gone == old.tbl.rows[i]
        IN  /\ new.tbl.rows = without(old.tbl.rows, i)
            /\ gone.id # "" =>
                  Elements(new.tbl.deletedIds) = Elements(old.tbl.deletedIds) \cup {gone.id}
            /\ gone.id = "" => new.tbl.deletedIds = old.tbl.deletedIds
            /\ getValue(new).rows = without(getValue(old).rows, i)
            /\ getValue(new).deletedIds = new.tbl.deletedIds
            /\ exportToCsv(new) = IF exportLine(old, i) = 0 THEN exportToCsv(old)
                                  ELSE without(exportToCsv(old), exportLine(old, i))
    ]_vars

\* the tagged row "42" was deleted from among other rows
C17_Witness ==
    /\ last.op = "delete"
    /\ fields[last.fieldId].tbl.deletedIds = <<"42">>
    /\ fields[last.fieldId].tbl.rows # <<>>
    /\ \A i \in 1..Len(fields[last.fieldId].tbl.rows) :
          fields[last.fieldId].tbl.rows[i].id # "42"
    /\ getValue(fields[last.fieldId]).deletedIds = <<"42">>

\* C18: no step of a table takes an identity out of its deletedIds, whatever
\* the operation, also when a row of that identity is added again
C18_DeletedIdsKept ==
    [][\A id \in DOMAIN fields :
          /\ id \in DOMAIN fields'
          /\ Elements(fields[id].tbl.deletedIds) \subseteq Elements(fields'[id].tbl.deletedIds)
    ]_vars

\* a row tagged "42" was added after "42" went into deletedIds
C18_Witness ==
    /\ last.op = "add"
    /\ last.value = "42"
    /\ "42" \in Elements(fields[last.fieldId].tbl.deletedIds)
    /\ \E i \in 1..Len(fields[last.fieldId].tbl.rows) :
          fields[last.fieldId].tbl.rows[i].id = "42"

\* the table fields of the configuration with pagination: true
PagedFields ==
    UNION { {r.fields[k] : k \in 1..Len(r.fields)} : r \in Elements(rows) }

\* C19: once render() has run on a form with a paginated table, the table
\* has a page size, totalPages is ceil(visible rows / rowsPerPage), and
\* currentPage lies in 1..max(1, totalPages)
C19_PageInRange ==
    \A config \in PagedFields :
        (config.type = "table" /\ config.pagination /\ last # NoEvent) =>
            /\ config.id \in DOMAIN fields
            /\ LET tbl == fields[config.id].tbl
                   visible == Len(visibleRows(tbl))
               IN  /\ tbl.rowsPerPage > 0
                   /\ \E totalPages \in 0..visible :
                        /\ totalPages * tbl.rowsPerPage >= visible
                        /\ (totalPages - 1) * tbl.rowsPerPage < visible
                        /\ tbl.currentPage >= 1
                        /\ tbl.currentPage <= IF totalPages > 1 THEN totalPages ELSE 1

\* no filter input holds a value and no row is filtered out
Unfiltered(field) ==
    /\ \A c \in 1..Len(field.columns) : field.tbl.filters[c] = NoFilter
    /\ \A i \in 1..Len(field.tbl.rows) : field.tbl.rows[i].display # "none"
\* no cell holds a comma
CommaFree(field) ==
    \A i \in 1..Len(field.tbl.rows) : \A c \in 1..Len(field.columns) :
        field.tbl.rows[i].cells[c] \notin DOMAIN Commas
rowValues(field) == [i \in 1..Len(field.tbl.rows) |-> field.tbl.rows[i].cells]

\* C20: importing the file the table just exported, with no filter active
\* and no comma in a cell, succeeds and leaves the rows with the same values
C20_CsvRoundTrip ==
    [][(/\ last'.op = "import"
        /\ last'.decided = 1
        /\ Unfiltered(fields[last'.fieldId])
        /\ CommaFree(fields[last'.fieldId]))
       => /\ last'.value = "imported"
          /\ rowValues(fields'[last'.fieldId]) = rowValues(fields[last'.fieldId])
    ]_vars

----------------------------------------------------------------------------
(* The handlers of a table of two columns, on drawn rows *)

\* a sortable, filterable table of a text and a number column
GridTable ==
    TableField("items", << FilterColumn("Name", "text", <<>>),
                           FilterColumn("Qty", "number", <<>>) >>, TRUE, TRUE, FALSE)

\* what a user types into the min and max inputs of a number filter
FilterNumbers == {"", "10"}

\* the rows a user can have entered into the table of field: at most n rows,
\* every cell holding a text of its column
RECURSIVE EnteredRows(_, _)
EnteredRows(field, n) ==
    IF n = 0 THEN {<<>>}
    ELSE LET shorter == EnteredRows(field, n - 1)
             cells == {cs \in [1..Len(field.columns) -> Texts \cup NumberTexts] :
                          \A c \in 1..Len(field.columns) : cs[c] \in CellTexts(field.columns[c])}
         IN  shorter \cup {Append(rs, [id |-> "", cells |-> cs, display |-> "", dnone |-> FALSE]) :
                              rs \in {r \in shorter : Len(r) = n - 1}, cs \in cells}

\* the session after render(), Add Row clicks and cell edits
EnteredIn(table) ==
    /\ rows = TableForm(table)
    /\ \E entered \in EnteredRows(table, MaxTableRows) :
         LET s == render(DynamicForm)
         IN  /\ currentRows = s.currentRows
             /\ fields = [s.fields EXCEPT ![table.id].tbl.rows = entered]
             /\ branchHistory = s.branchHistory
             /\ domRows = s.domRows
             /\ form = s.form
             /\ threw = s.threw
    /\ formData = NoData
    /\ last = NoEvent
    /\ memo = NoMemo
    /\ service = NoService

Entered == EnteredIn(GridTable)

\* the events are not remembered
InitGrid ==
    /\ Entered
    /\ events = Overflow

\* the user types into the min or the max input of the number column c
FilterNumber ==
    \E id \in DOMAIN fields : \E c \in 1..Len(fields[id].columns) :
      \E min \in FilterNumbers : \E max \in FilterNumbers :
        /\ fields[id].type = "table"
        /\ fields[id].filterable
        /\ fields[id].columns[c].filterable
        /\ fields[id].columns[c].type = "number"
        /\ (fields[id].tbl.filters[c].min = min) # (fields[id].tbl.filters[c].max = max)
        /\ Handled(id, filterTable([fields[id] EXCEPT !.tbl.filters[c].min = min,
                                                      !.tbl.filters[c].max = max],
                                   fields[id].columns[c].header,
                                   [NoFilter EXCEPT !.min = min, !.max = max], "number"),
                   Event("filter", fields[id].row, id, "", c, <<>>))

NextGrid ==
    \/ SortTable
    \/ FilterTable
    \/ FilterNumber
    \/ ExportCsv
    \/ ImportCsv

SpecGrid == InitGrid /\ [][NextGrid]_vars

----------------------------------------------------------------------------
(* Claims about the CSV text of a table *)

\* the table fields of the session
Tables == {id \in DOMAIN fields : fields[id].type = "table"}
configuredHeaders(field) == [c \in 1..Len(field.columns) |-> field.columns[c].header]

\* C21: the first line of the text Export CSV writes is the headers of all
\* configured columns, in configured order, joined by commas, whether or
\* not the table was sorted
C21_ExportHeaders ==
    last.op = "export" =>
        \A id \in Tables : exportToCsv(fields[id])[1] = join(configuredHeaders(fields[id]))


\* the kind of filter createFilterRow gives a column
filterType(column) ==
    IF column.type \in {"date", "number"} THEN column.type ELSE "text"
\* the row satisfies the criterion that every filter input of the table holds
passes(field, row) ==
    \A c \in 1..Len(field.columns) :
        (field.filterable /\ field.columns[c].filterable) =>
            shows(row.cells[c], field.tbl.filters[c], filterType(field.columns[c]))

\* C22: after the header line the text Export CSV writes has one line per
\* row that passes the current filter, in the order the rows have in the
\* table, each line the values of the row's cells in column order; rows
\* that the filter hides and deleted rows have no line
C22_ExportLines ==
    last.op = "export" =>
        \A id \in Tables :
            LET passing == SelectSeq(fields[id].tbl.rows, LAMBDA row : passes(fields[id], row))
            IN  Tail(exportToCsv(fields[id])) = [k \in 1..Len(passing) |-> join(passing[k].cells)]


\* the file of an import step, as picked in the state before the step
importedFile == CsvFiles(fields[last'.fieldId])[last'.decided]
\* the header line of the file lacks the header of a configured column
lacksHeader(field, text) ==
    \E c \in 1..Len(field.columns) :
        \A h \in 1..Len(text[1]) : trim(text[1][h]) # field.columns[c].header

\* C23: an import of a text whose header line lacks the header of a
\* configured column is answered with the error alert and leaves the table
\* as it was: rows with their values and identities, deletedIds, sort
\* indicators and direction, filter inputs and row visibility
C23_MismatchLeavesTable ==
    [][(last'.op = "import" /\ lacksHeader(fields[last'.fieldId], importedFile))
       => /\ last'.value = "alert"
          /\ fields' = fields
          /\ getValue(fields'[last'.fieldId]) = getValue(fields[last'.fieldId])
    ]_vars

\* the file of the column Qty alone was refused by a sorted, filtered table
\* that holds a row and a deleted identity
C23_Witness ==
    /\ last.op = "import"
    /\ last.value = "alert"
    /\ last.decided = 3
    /\ fields[last.fieldId].tbl.rows # <<>>
    /\ fields[last.fieldId].tbl.deletedIds # <<>>
    /\ fields[last.fieldId].tbl.sortDir # ""
    /\ fields[last.fieldId].tbl.filters[1].text = "x"


\* the lines after the header that hold more than white space
dataLines(text) ==
    SelectSeq(Tail(text), LAMBDA line : [k \in 1..Len(line) |-> trim(line[k])] # <<"">>)
\* the part of line under the header of column, trimmed; "" when the line
\* is too short
partFor(column, text, line) ==
    LET h == CHOOSE k \in 1..Len(text[1]) : trim(text[1][k]) = column.header
    IN  IF h <= Len(line) THEN trim(line[h]) ELSE ""

\* C24: after a successful import the rows of the table are one untagged,
\* displayed row per non-empty line after the header, in the order of the
\* file, holding the values of that line; nothing of the rows the table had
\* before is left
C24_ImportReplaces ==
    [][(last'.op = "import" /\ last'.value = "imported")
       => LET field == fields[last'.fieldId]
              after == fields'[last'.fieldId].tbl.rows
              lines == dataLines(importedFile)
          IN  /\ Len(after) = Len(lines)
              /\ \A k \in 1..Len(after) :
                    /\ after[k].id = ""
                    /\ after[k].display = ""
                    /\ \A c \in 1..Len(field.columns) :
                          after[k].cells[c] = assign(field.columns[c],
                                                     partFor(field.columns[c], importedFile, lines[k]))
    ]_vars

\* the file of two data lines and an empty line was imported into a table
\* that has a deleted identity: two untagged rows
C24_Witness ==
    /\ last.op = "import"
    /\ last.value = "imported"
    /\ last.decided = 2
    /\ Len(fields[last.fieldId].tbl.rows) = 2
    /\ fields[last.fieldId].tbl.deletedIds = <<"42">>
    /\ \A k \in 1..2 : fields[last.fieldId].tbl.rows[k].id = ""


\* the orders in which the n columns of a CSV text can be written
ColumnOrders(n) ==
    {p \in [1..n -> 1..n] : \A i \in 1..n : \A j \in 1..n : p[i] = p[j] => i = j}
\* text with its columns in the order p: the header line and every line of
\* full width alike
permuted(text, p) ==
    [l \in 1..Len(text) |->
        IF Len(text[l]) = Len(text[1]) THEN [k \in 1..Len(text[1]) |-> text[l][p[k]]]
        ELSE text[l]]
\* text without the columns whose header no column of field has
knownOnly(field, text) ==
    LET known == SelectSeq([k \in 1..Len(text[1]) |-> k],
                           LAMBDA k : \E c \in 1..Len(field.columns) :
                                         trim(text[1][k]) = field.columns[c].header)
    IN  [l \in 1..Len(text) |->
            IF Len(text[l]) = Len(text[1]) THEN [k \in 1..Len(known) |-> text[l][known[k]]]
            ELSE text[l]]

\* C25: an import takes the value of each configured column from the part
\* under that column's header: the text with its columns in any other
\* order, and the text without its unknown columns, give the same rows
C25_ImportByHeader ==
    [][last'.op = "import"
       => \A field \in {fields[last'.fieldId]} : \A text \in {importedFile} :
          \A imported \in {rowValues(fields'[last'.fieldId])} :
            /\ \A p \in ColumnOrders(Len(text[1])) : \A other \in {permuted(text, p)} :
                  rowValues(importCsv(field, other).field) = imported
            /\ lacksHeader(field, text)
               \/ \A other \in {knownOnly(field, text)} :
                     rowValues(importCsv(field, other).field) = imported
    ]_vars

\* the file with the columns Qty, Note, Name was imported into the table
\* with the columns Name, Qty
C25_Witness ==
    /\ last.op = "import"
    /\ last.value = "imported"
    /\ last.decided = 2
    /\ configuredHeaders(fields[last.fieldId]) = <<"Name", "Qty">>
    /\ rowValues(fields[last.fieldId]) = << <<"x", "9">>, <<"x", "10">> >>


----------------------------------------------------------------------------
(* Clicks on the headers of the two-column table, all remembered *)

InitSort ==
    /\ Entered
    /\ events = <<>>

NextSort == SortTable

SpecSort == InitSort /\ [][NextSort]_vars

\* the directions the earlier clicks on column c of field id gave, in order
directionsOf(id, c) ==
    LET mine == SelectSeq(events, LAMBDA ev : ev[1] = id /\ ev[2] = c)
    IN  [k \in 1..Len(mine) |-> mine[k][3]]

\* C26: the first click on the header of a column sorts ascending, and
\* every later click on the same header gives the reverse of the direction
\* the previous click on that header gave, whatever clicks on other headers
\* came in between
C26_SortToggles ==
    [][(last'.op = "sort" /\ events # Overflow)
       => LET id == last'.fieldId
              earlier == directionsOf(id, last'.decided)
              expected == IF earlier = <<>> \/ earlier[Len(earlier)] = "desc"
                          THEN "asc" ELSE "desc"
          IN  /\ fields'[id].tbl.sortDir = expected
              /\ fields'[id].tbl.marks[last'.decided] = arrow(expected)
    ]_vars


----------------------------------------------------------------------------
(* Claims about the filter of a table *)

\* C27: a filter event changes nothing but which rows are displayed:
\* getValue() returns the same rows and deletedIds, the rows keep their
\* order, identities and values, the sort state stays; and when the event
\* cleared the criterion of its column (empty text, or both bounds empty),
\* every row that failed that criterion is displayed again
C27_FilterOnlyHides ==
    [][last'.op = "filter"
       => \A old \in {fields[last'.fieldId]} : \A new \in {fields'[last'.fieldId]} :
            LET c == last'.decided
            IN  /\ getValue(new) = getValue(old)
                /\ new.tbl.deletedIds = old.tbl.deletedIds
                /\ Len(new.tbl.rows) = Len(old.tbl.rows)
                /\ \A i \in 1..Len(old.tbl.rows) :
                      /\ new.tbl.rows[i].id = old.tbl.rows[i].id
                      /\ new.tbl.rows[i].cells = old.tbl.rows[i].cells
                /\ new.tbl.sortDir = old.tbl.sortDir /\ new.tbl.marks = old.tbl.marks
                /\ new.tbl.filters[c] = NoFilter =>
                      \A i \in 1..Len(old.tbl.rows) :
                          ~shows(old.tbl.rows[i].cells[c], old.tbl.filters[c],
                                 filterType(old.columns[c]))
                              => new.tbl.rows[i].display = ""
    ]_vars

\* the bounds of the number filter were both emptied, and a row whose
\* number is below 10 is displayed beside another
C27_Witness ==
    /\ last.op = "filter"
    /\ fields[last.fieldId].columns[last.decided].type = "number"
    /\ fields[last.fieldId].tbl.filters[last.decided] = NoFilter
    /\ Len(fields[last.fieldId].tbl.rows) > 1
    /\ \E i \in 1..Len(fields[last.fieldId].tbl.rows) :
          /\ fields[last.fieldId].tbl.rows[i].cells[last.decided] = "9"
          /\ fields[last.fieldId].tbl.rows[i].display = ""


----------------------------------------------------------------------------
(* Claims about populate *)

\* the path a bag selects: from row 0 on, the row decided by the value the
\* bag holds for the radio or select field of the last row, as long as the
\* bag holds one and the decided row is defined
RECURSIVE replay(_, _)
replay(path, data) ==
    LET rowConfig == rows[path[Len(path)] + 1]
        held == {k \in 1..Len(rowConfig.fields) :
                    /\ rowConfig.fields[k].type \in {"radio", "select"}
                    /\ Truthy(Get(data, rowConfig.fields[k].id))}
        fieldId == rowConfig.fields[Min(held)].id
        next == decide(rowConfig, fieldId, Raw(Get(data, fieldId)))
    IN  IF held = {} \/ Len(path) >= MaxPath THEN path
        ELSE IF Defined(next) THEN replay(Append(path, next), data)
        ELSE path

\* C28: setFormData(data) ends with currentRows equal to the whole path the
\* values of data select, row after row, and with every radio, select and
\* text field of the rows on that path holding its value of data
C28_PopulateReplaysPath ==
    [][last'.op = "populate"
       => \A data \in {formData} : \A path \in {replay(<<0>>, data)} :
            /\ currentRows' = path
            /\ \A p \in 1..Len(path) : \A k \in 1..Len(rows[path[p] + 1].fields) :
                  LET config == rows[path[p] + 1].fields[k]
                  IN  (config.type \in {"radio", "select", "text"}
                       /\ Get(data, config.id).t = "string")
                      => /\ config.id \in DOMAIN fields'
                         /\ ControlValue(fields'[config.id]) = Raw(Get(data, config.id))
    ]_vars


----------------------------------------------------------------------------
(* The session with the file read of an import as a step of its own *)

\* the file reads one field has pending at a time
MaxReads == 1

\* the user picks file k in the Import CSV input of a table the page shows:
\* importCsv runs up to await file.text()
PickFile ==
    \E id \in DOMAIN fields : \E k \in 1..Len(CsvFiles(fields[id])) :
        /\ fields[id].type = "table"
        /\ Len(fields[id].reading) < MaxReads
        /\ Handled(id, [fields[id] EXCEPT !.reading = Append(@, CsvFiles(fields[id])[k])],
                   Event("pick", fields[id].row, id, "", k, currentRows))

\* file.text() resolves: importCsv goes on from line 729 on the tbody it was
\* called with, whether or not that tbody is still in the document
FileRead ==
    \E id \in DOMAIN fields :
        /\ fields[id].type = "table"
        /\ fields[id].reading # <<>>
        /\ LET done == importCsv([fields[id] EXCEPT !.reading = Tail(@)], fields[id].reading[1])
           IN  /\ fields' = [fields EXCEPT ![id] = done.field]
               /\ last' = Event("read", fields[id].row, id,
                                IF done.ok THEN "imported" ELSE "alert", -1, currentRows)
        /\ formData' = NoData
        /\ UNCHANGED <<rows, service, currentRows, branchHistory, domRows, form, threw, events, memo>>

NextAsync ==
    \/ Render
    \/ ChangeRadio
    \/ ChangeSelect
    \/ PickFile
    \/ FileRead
    \/ Submit

SpecAsync == Init /\ [][NextAsync]_vars

\* C29: when file.text() of an import resolves after the row of the table
\* was pruned from currentRows, the completion changes no row of the table
\* and no value that submit() returns afterwards
C29_StaleReadDiscarded ==
    [][(last'.op = "read" /\ findIndex(currentRows, rows[last'.row + 1].id) = -1)
       => /\ fields'[last'.fieldId].tbl = fields[last'.fieldId].tbl
          /\ [id \in DOMAIN fields' |-> getValue(fields'[id])]
                = [id \in DOMAIN fields |-> getValue(fields[id])]
    ]_vars


(***************************************************************************)
(* SharePointService (src/SharePointService.js): submitForm turns the      *)
(* submitted data into list requests.  Item ids are strings, "" for null;  *)
(* a request stays pending until its completefunc runs.                    *)
(***************************************************************************)
ParentListName == "Orders"
ChildListNames == << "table-items", "table-notes" >>
\* key.startsWith("table-")
StartsWithTable == {"table-items", "table-notes"}
\* the id of the item being edited, "" when a new item is submitted
ExistingItemIds == {"", "7"}
\* the ows_ID the server returns for a created item
NewItemId == "1"
\* files a caller puts under formData.attachments, as {name, content}
ItemFiles ==
    << [name |-> "a.pdf", content |-> "JVBERg=="], [name |-> "b.txt", content |-> "Yg=="] >>
\* the rows a caller hands for the second child list
NoteRows == << [Note |-> "n"] >>

\* a form whose table field is named after a child list
ServiceTable ==
    TableField("table-items", << FilterColumn("Name", "text", <<>>) >>, TRUE, TRUE, FALSE)

Entry(id, type, spItemId, entryFields, data, files) ==
    [id |-> id, type |-> type, spItemId |-> spItemId, fields |-> entryFields,
     data |-> data, files |-> files]

Method(cmd, id, parent, methodFields) ==
    [cmd |-> cmd, id |-> id, parent |-> parent, fields |-> methodFields]

Request(operation, listName, methods) ==
    [operation |-> operation, listName |-> listName, methods |-> methods]

\* processedData.find(item => item.id === id): its position, 0 for undefined
find(processedData, id) ==
    IF \E i \in 1..Len(processedData) : processedData[i].id = id
    THEN CHOOSE i \in 1..Len(processedData) :
            /\ processedData[i].id = id
            /\ \A j \in 1..(i - 1) : processedData[j].id # id
    ELSE 0

RECURSIVE configFields(_)
\* the field ids of every section of a configuration, in order
configFields(formConfig) ==
    IF formConfig = <<>> THEN <<>>
    ELSE [i \in 1..Len(Head(formConfig).fields) |-> Head(formConfig).fields[i].id]
         \o configFields(Tail(formConfig))

RECURSIVE keysOf(_)
\* Object.keys of a set of keys; the entries made from them have distinct ids
keysOf(keys) ==
    IF keys = {} THEN <<>>
    ELSE LET k == CHOOSE x \in keys : TRUE IN << k >> \o keysOf(keys \ {k})

\* row.ID || row.id || null
rowItemId(row) ==
    IF "ID" \in DOMAIN row /\ row["ID"] # "" THEN row["ID"]
    ELSE IF "id" \in DOMAIN row /\ row["id"] # "" THEN row["id"]
    ELSE ""

\* const { ID, id, ...rowData } = row; return { spItemId, ...rowData }
childRow(row) ==
    [spItemId |-> rowItemId(row),
     fields |-> [k \in DOMAIN row \ {"ID", "id"} |-> row[k]]]

processFormData(data, formConfig, existingItemId) ==
    LET names == SelectSeq(configFields(formConfig),
                           LAMBDA id : id \in DOMAIN data /\ data[id] # Undefined)
        parentFields == [i \in 1..Len(names) |-> [name |-> names[i], value |-> data[names[i]]]]
        tableKeys == keysOf({k \in DOMAIN data : data[k].t = "array" /\ k \in StartsWithTable})
        tables == [i \in 1..Len(tableKeys) |->
                      Entry(tableKeys[i], "table", "", <<>>,
                            [r \in 1..Len(data[tableKeys[i]].rows) |->
                                childRow(data[tableKeys[i]].rows[r])],
                            <<>>)]
        attached == IF /\ "attachments" \in DOMAIN data
                       /\ data["attachments"].t = "array"
                       /\ Len(data["attachments"].rows) > 0
                    THEN << Entry("Attachments", "attachments", "", <<>>, <<>>,
                                  data["attachments"].rows) >>
                    ELSE <<>>
    IN  << Entry(ParentListName, "parent", existingItemId, parentFields, <<>>, <<>>) >>
        \o tables \o attached

\* the request upsertChildItems sends, <<>> when there are no rows
upsertChildItems(childListName, parentListName, parentId, rowsData) ==
    IF Len(rowsData) = 0 THEN <<>>
    ELSE << Request("UpdateListItems", childListName,
                [i \in 1..Len(rowsData) |->
                    \* { [parentListName]: parentId, ...dataFields }
                    Method(IF rowsData[i].spItemId # "" THEN "Update" ELSE "New",
                           rowsData[i].spItemId,
                           IF parentListName \in DOMAIN rowsData[i].fields
                           THEN rowsData[i].fields[parentListName] ELSE parentId,
                           rowsData[i].fields)]) >>

RECURSIVE childRequests(_, _, _)
\* this.childListNames.forEach(...) with the parent's id
childRequests(childLists, processedData, parentItemId) ==
    IF childLists = <<>> THEN <<>>
    ELSE LET at == find(processedData, Head(childLists))
         IN  (IF at # 0 /\ processedData[at].type = "table"
              THEN upsertChildItems(Head(childLists), ParentListName, parentItemId,
                                    processedData[at].data)
              ELSE <<>>)
             \o childRequests(Tail(childLists), processedData, parentItemId)

\* one AddAttachment request for each file of the attachments entry
attachRequests(processedData, parentItemId) ==
    LET found == {i \in 1..Len(processedData) : processedData[i].type = "attachments"}
    IN  IF found = {} THEN <<>>
        ELSE LET files == processedData[CHOOSE i \in found : \A j \in found : i <= j].files
             IN  [i \in 1..Len(files) |->
                     Request("AddAttachment", ParentListName,
                             << Method("AddAttachment", parentItemId, "", files[i]) >>)]

issue(svc, stage, requests) ==
    [svc EXCEPT !.stage = stage,
                !.sent = @ \o requests,
                !.pending = (Len(svc.sent) + 1)..(Len(svc.sent) + Len(requests))]

\* the third then(): resolve(parentItemId)
afterAttachments(svc) ==
    [svc EXCEPT !.stage = "resolved", !.resolvedWith = svc.parentItemId]

\* the second then(): attachments, when there are any
afterChildren(svc) ==
    LET requests == attachRequests(svc.processed, svc.parentItemId)
    IN  IF requests = <<>> THEN afterAttachments(svc)
        ELSE issue(svc, "attachments", requests)

\* the first then(): the child upserts, with the id the parent request gave
afterParent(svc) ==
    LET parentObj == svc.processed[find(svc.processed, ParentListName)]
        id == IF parentObj.spItemId # "" THEN parentObj.spItemId ELSE NewItemId
        known == [svc EXCEPT !.parentItemId = id]
        requests == childRequests(ChildListNames, svc.processed, id)
    IN  IF requests = <<>> THEN afterChildren(known)
        ELSE issue(known, "children", requests)

submitForm(data, formConfig, existingItemId) ==
    LET processedData == processFormData(data, formConfig, existingItemId)
        at == find(processedData, ParentListName)
        started == [NoService EXCEPT !.data = data, !.processed = processedData]
    IN  IF at = 0 THEN [started EXCEPT !.stage = "rejected"]
        ELSE issue(started, "parent",
                   << Request("UpdateListItems", ParentListName,
                        << Method(IF processedData[at].spItemId # "" THEN "Update" ELSE "New",
                                  processedData[at].spItemId, "",
                                  [i \in 1..Len(processedData[at].fields) |->
                                      processedData[at].fields[i]]) >>) >>)

\* a chain that goes on as soon as one request of the stage is done
completefuncFirst(svc, k, ok) ==
    LET left == [svc EXCEPT !.pending = @ \ {k},
                            !.succeeded = IF ok THEN @ \cup {k} ELSE @]
    IN  IF svc.stage \in {"rejected", "resolved"} THEN left
        ELSE IF ~ok THEN [left EXCEPT !.stage = "rejected"]
        ELSE CASE svc.stage = "parent" -> afterParent(left)
               [] svc.stage = "children" -> afterChildren(left)
               [] OTHER -> afterAttachments(left)

\* the completefunc of request k: errorText rejects, otherwise the promise
\* resolves and the chain goes on once every request of the stage is done
completefunc(svc, k, ok) ==
    LET left == [svc EXCEPT !.pending = @ \ {k},
                            !.succeeded = IF ok THEN @ \cup {k} ELSE @]
    IN  IF svc.stage \in {"rejected", "resolved"} THEN left
        ELSE IF ~ok THEN [left EXCEPT !.stage = "rejected"]
        ELSE IF left.pending # {} THEN left
        ELSE CASE svc.stage = "parent" -> afterParent(left)
               [] svc.stage = "children" -> afterChildren(left)
               [] OTHER -> afterAttachments(left)

\* the rows of a table value as the array of row objects the service reads,
\* the identity under the key ID
asArray(value) ==
    ArrV([i \in 1..Len(value.rows) |->
            [k \in (DOMAIN value.rows[i] \ {"Id"})
                   \cup (IF "Id" \in DOMAIN value.rows[i] THEN {"ID"} ELSE {}) |->
                IF k = "ID" THEN value.rows[i]["Id"] ELSE value.rows[i][k]]])

\* what a caller hands to submitForm: the submitted data as handleSubmit
\* returned it, or with each table value turned into the array of its rows
\* and the rows of the second child list added; with or without files under
\* attachments
Handed(data) ==
    LET arrays == [k \in DOMAIN data |->
                      IF data[k].t = "object" THEN asArray(data[k]) ELSE data[k]]
                  @@ ("table-notes" :> ArrV(NoteRows))
    IN  {data, arrays, data @@ ("attachments" :> ArrV(ItemFiles)),
         arrays @@ ("attachments" :> ArrV(ItemFiles))}

SubmitForm ==
    /\ formData # NoData
    /\ service.stage = "idle"
    /\ \E existingItemId \in ExistingItemIds : \E data \in Handed(formData) :
        /\ service' = submitForm(data, rows, existingItemId)
        /\ last' = Event("submitForm", -1, "", existingItemId, -1, <<>>)
        /\ UNCHANGED <<rows, currentRows, fields, branchHistory, domRows, form, threw,
                       formData, events, memo>>

Respond ==
    \E k \in service.pending : \E ok \in BOOLEAN :
        /\ service' = completefunc(service, k, ok)
        /\ last' = Event("respond", -1, "", IF ok THEN "ok" ELSE "error", k, <<>>)
        /\ UNCHANGED <<rows, currentRows, fields, branchHistory, domRows, form, threw,
                       formData, events, memo>>

InitService ==
    /\ rows = TableForm(ServiceTable)
    /\ currentRows = DynamicForm.currentRows
    /\ fields = DynamicForm.fields
    /\ branchHistory = DynamicForm.branchHistory
    /\ domRows = DynamicForm.domRows
    /\ form = DynamicForm.form
    /\ threw = DynamicForm.threw
    /\ formData = NoData
    /\ last = NoEvent
    /\ events = Overflow
    /\ memo = NoMemo
    /\ service = NoService

\* submitForm reads only the data it was handed, so the form's handlers are
\* left out once it has been called
Idle == service.stage = "idle"

NextService ==
    \/ Idle /\ Render
    \/ Idle /\ AddRow
    \/ Idle /\ AddExisting
    \/ Idle /\ DeleteRow
    \/ Idle /\ EditCell
    \/ Idle /\ Submit
    \/ SubmitForm
    \/ Respond

SpecService == InitService /\ [][NextService]_vars

\* the methods of the requests sent to the child lists so far
childMethods ==
    UNION {{service.sent[r].methods[m] : m \in 1..Len(service.sent[r].methods)} :
              r \in {q \in 1..Len(service.sent) : service.sent[q].listName # ParentListName}}

\* the table values {rows, deletedIds} among the data handed to submitForm
tableValues == {service.data[k] : k \in {x \in DOMAIN service.data : service.data[x].t = "object"}}

\* C30: once submitForm has resolved for data holding a table value
\* {rows, deletedIds}, every untagged row was sent as a New, every tagged row
\* as an Update of its identity and never as a New, and every identity in
\* deletedIds as a Delete.
C30_TableValuePersisted ==
    service.stage = "resolved" =>
        \A value \in tableValues :
            /\ \A i \in 1..Len(value.rows) :
                  LET row == value.rows[i]
                      cells == [k \in DOMAIN row \ {"Id"} |-> row[k]]
                  IN  IF "Id" \in DOMAIN row
                      THEN /\ \E m \in childMethods : m.cmd = "Update" /\ m.id = row["Id"]
                           /\ ~ \E m \in childMethods : m.cmd = "New" /\ m.fields = cells
                      ELSE \E m \in childMethods : m.cmd = "New" /\ m.fields = cells
            /\ \A d \in 1..Len(value.deletedIds) :
                  \E m \in childMethods : m.cmd = "Delete" /\ m.id = value.deletedIds[d]

\* the requests sent to the child lists, and the attachment requests
childSent ==
    {r \in 1..Len(service.sent) :
        service.sent[r].operation = "UpdateListItems"
        /\ service.sent[r].listName # ParentListName}
attachSent == {r \in 1..Len(service.sent) : service.sent[r].operation = "AddAttachment"}
\* the id of the parent item: the existing one, or the one the server gave
parentIdOf(existingItemId) == IF existingItemId # "" THEN existingItemId ELSE NewItemId

\* C31: submitForm runs its stages in order.  The first request creates the
\* parent item (no existing id) or updates it (existing id); a child upsert
\* is sent only after that request succeeded and carries the parent's id;
\* an attachment is sent only after every child upsert succeeded; and the
\* promise resolves, with the parent's id, only after every request succeeded.
C31_StagesInOrder ==
    service.stage # "idle" =>
        \A existingItemId \in {service.processed[1].spItemId} :
            /\ Len(service.sent) >= 1
            /\ service.sent[1] =
                  Request("UpdateListItems", ParentListName,
                      << Method(IF existingItemId = "" THEN "New" ELSE "Update",
                                existingItemId, "", service.processed[1].fields) >>)
            /\ childSent # {} => 1 \in service.succeeded
            /\ \A r \in childSent : \A m \in 1..Len(service.sent[r].methods) :
                  service.sent[r].methods[m].parent = parentIdOf(existingItemId)
            /\ attachSent # {} => ({1} \cup childSent) \subseteq service.succeeded
            /\ \A r \in attachSent :
                  service.sent[r].methods[1].id = parentIdOf(existingItemId)
            /\ service.stage = "resolved" =>
                  /\ 1..Len(service.sent) \subseteq service.succeeded
                  /\ service.resolvedWith = parentIdOf(existingItemId)

\* a new item with two child upserts and two attachments has resolved
C31_Witness ==
    /\ service.stage = "resolved"
    /\ service.processed[1].spItemId = ""
    /\ Cardinality(childSent) = 2
    /\ Cardinality(attachSent) = 2

\* the positions of the array conditions of the decided field whose operator
\* is not or
andArrays ==
    {p \in 1..Len(DecidedRow.branchConditions) :
        /\ DecidedRow.branchConditions[p].fieldId = last.fieldId
        /\ DecidedRow.branchConditions[p].isArray
        /\ DecidedRow.branchConditions[p].operator # "or"}
elementsOf(condition) == {condition.values[i] : i \in 1..Len(condition.values)}
\* the row without its condition at position p, and with a scalar condition
\* on x in its place
withoutCond(rowConfig, p) ==
    [rowConfig EXCEPT !.branchConditions =
        SubSeq(@, 1, p - 1) \o SubSeq(@, p + 1, Len(@))]
withScalar(rowConfig, p, x) ==
    [rowConfig EXCEPT !.branchConditions[p] =
        [Cond(@.fieldId, x, @.nextRow) EXCEPT !.defaultBranch = rowConfig.branchConditions[p].defaultBranch]]

\* C32: an array condition whose operator is not or matches iff the value
\* equals every element: with one element it decides as the scalar condition
\* on that element does, and with two or more distinct elements it never
\* fires, so the decision is the one made without it (a later condition, the
\* default branch or id + 1).
C32_AndArrayNeverFires ==
    (Decided /\ DecidedRow.hasBranchConditions) =>
        \A p \in andArrays :
            \A elements \in {elementsOf(DecidedRow.branchConditions[p])} :
                /\ Cardinality(elements) >= 2
                      => last.decided = decide(withoutCond(DecidedRow, p), last.fieldId, last.value)
                /\ \A x \in elements :
                      elements = {x}
                      => last.decided = decide(withScalar(DecidedRow, p, x), last.fieldId, last.value)

\* a value that is an element of a two-element and-array declared first was
\* decided by something else
C32_Witness ==
    /\ Decided
    /\ DecidedRow.hasBranchConditions
    /\ 1 \in andArrays
    /\ Cardinality(elementsOf(DecidedRow.branchConditions[1])) = 2
    /\ last.value \in elementsOf(DecidedRow.branchConditions[1])
    /\ last.decided # DecidedRow.branchConditions[1].nextRow

\* a row id that addresses a row of the configuration
addressed(rowId) == \E r \in 1..Len(rows) : rows[r].id = rowId

\* C33: a change on the row at position i of currentRows whose decided row is
\* not the one that follows it leaves currentRows[0..i] as it was and ends
\* with i + 2 entries, the last one the decided row, when the decided id
\* addresses a defined row, and with i + 1 entries when it does not.
C33_ReconcileAppendsOne ==
    [][ (last'.op = "change" /\ last' # last) =>
          \A i \in {findIndex(currentRows, rows[last'.row + 1].id)} :
            ( /\ i # -1
              /\ ~ (i + 2 <= Len(currentRows) /\ currentRows[i + 2] = last'.decided) )
            => /\ SubSeq(currentRows', 1, i + 1) = SubSeq(currentRows, 1, i + 1)
               /\ IF addressed(last'.decided)
                  THEN currentRows' = Append(SubSeq(currentRows, 1, i + 1), last'.decided)
                  ELSE currentRows' = SubSeq(currentRows, 1, i + 1)
      ]_vars

\* a table whose second header is a substring of the first
NamesTable ==
    TableField("items", << FilterColumn("Full Name", "text", <<>>),
                           FilterColumn("Name", "number", <<>>) >>, TRUE, TRUE, FALSE)

InitNames ==
    /\ EnteredIn(NamesTable)
    /\ events = Overflow

SpecNames == InitNames /\ [][NextSort]_vars

\* how often a row occurs among rows
occurrences(tableRows, row) == Cardinality({i \in 1..Len(tableRows) : tableRows[i] = row})
\* the value a cell is ordered by in a column
sortKey(column, text) == IF column.type = "number" THEN Numbers[text] ELSE rank(text)

\* C34: sorting by a column only reorders: the rows afterwards are the rows
\* before in some order, deletedIds is unchanged, and the rows are in the
\* order the table's direction names (ascending or descending) of their
\* values in the very column that was clicked, numerically for a number
\* column, also when its header is a substring of another header.
C34_SortOnlyReorders ==
    [][ last'.op = "sort" =>
          \A before \in {fields[last'.fieldId].tbl.rows} :
          \A after \in {fields'[last'.fieldId].tbl.rows} :
          \A column \in {fields[last'.fieldId].columns[last'.decided]} :
              /\ Len(after) = Len(before)
              /\ \A i \in 1..Len(before) :
                    occurrences(after, before[i]) = occurrences(before, before[i])
              /\ fields'[last'.fieldId].tbl.deletedIds = fields[last'.fieldId].tbl.deletedIds
              /\ \A i, j \in 1..Len(after) :
                    i < j =>
                       IF fields'[last'.fieldId].tbl.sortDir = "asc"
                       THEN sortKey(column, after[i].cells[last'.decided])
                               <= sortKey(column, after[j].cells[last'.decided])
                       ELSE sortKey(column, after[i].cells[last'.decided])
                               >= sortKey(column, after[j].cells[last'.decided])
      ]_vars

\* C35: branchHistory describes the current path only: each of its keys is a
\* row id in currentRows, and its value, when it addresses a defined row, is
\* the row id that follows the key in currentRows.
C35_HistoryIsCurrentPath ==
    \A k \in DOMAIN branchHistory :
        \E i \in 1..Len(currentRows) :
            /\ currentRows[i] = k
            /\ addressed(branchHistory[k])
                  => (i < Len(currentRows) /\ currentRows[i + 1] = branchHistory[k])

\* C36: after a criterion of one column is set or cleared, a row is displayed
\* iff it satisfies the criterion of every column that has one.
C36_FiltersCombine ==
    [][last'.op = "filter"
       => \A field \in {fields'[last'.fieldId]} :
            \A i \in 1..Len(field.tbl.rows) :
                shown(field.tbl.rows[i]) <=> passes(field, field.tbl.rows[i])
    ]_vars

\* C37: a table configured with pagination displays, after every operation,
\* exactly the rows at positions (currentPage - 1) * rowsPerPage ..
\* currentPage * rowsPerPage - 1 of its post-filter rows.
C37_PageDisplayed ==
    \A config \in PagedFields :
        (config.type = "table" /\ config.pagination /\ last # NoEvent) =>
            /\ config.id \in DOMAIN fields
            /\ \A tbl \in {fields[config.id].tbl} : \A post \in {visibleRows(tbl)} :
                  /\ tbl.rowsPerPage > 0
                  /\ {i \in 1..Len(tbl.rows) : shown(tbl.rows[i])}
                        = {post[k] : k \in {n \in 1..Len(post) :
                                              /\ n - 1 >= (tbl.currentPage - 1) * tbl.rowsPerPage
                                              /\ n - 1 <= tbl.currentPage * tbl.rowsPerPage - 1}}

\* the identities a table accounts for: those of its rows and deletedIds
accounted(field) ==
    {field.tbl.rows[i].id : i \in {j \in 1..Len(field.tbl.rows) : field.tbl.rows[j].id # ""}}
    \cup {field.tbl.deletedIds[d] : d \in 1..Len(field.tbl.deletedIds)}

\* C38: no operation on a table loses an identity: every identity that is
\* the identity of a row or a member of deletedIds before a step is one of
\* the two after it.
C38_IdentitiesConserved ==
    [][last'.op # "render"
       => \A id \in Tables :
            id \in DOMAIN fields' => accounted(fields[id]) \subseteq accounted(fields'[id])
    ]_vars


----------------------------------------------------------------------------
(* render(existingData) on a form that was just constructed *)

\* render with existingData: setFormData runs before the form is appended
\* to the container (lines 17-29)
renderExisting(s, existingData) ==
    LET emptied == [s EXCEPT !.domRows = <<>>, !.form = "detached"]
        first == renderRow(emptied, 0, "detached")
        populated == IF first.threw THEN first ELSE setFormData(first, existingData)
    IN  IF populated.threw
        THEN [populated EXCEPT !.form = "none"]
        ELSE [populated EXCEPT !.form = "attached"]

\* bags that hold a value for the controlling field of row 0
ExistingData ==
    {("userType" :> StrV(v)) : v \in {"individual", "business", "nonprofit"}}

RenderExisting ==
    \E existingData \in ExistingData :
        /\ form = "none"
        /\ currentRows = <<>>
        /\ Becomes(renderExisting(Session, existingData))
        /\ last' = Event("renderExisting", 0, "userType", Raw(existingData["userType"]),
                         decide(rows[1], "userType", Raw(existingData["userType"])), <<>>)
        /\ formData' = NoData
        /\ UNCHANGED <<rows, service, events, memo>>

NextExisting ==
    \/ RenderExisting
    \/ Render
    \/ ChangeRadio
    \/ ChangeSelect
    \/ Submit

SpecExisting == Init /\ [][NextExisting]_vars

\* C39: render(existingData) with a value for a controlling field of row 0
\* completes without raising: the form is attached, currentRows is row 0
\* followed by the decided row when that row is defined, and the row
\* elements are the rows of currentRows in order.
C39_RenderExistingCompletes ==
    last.op = "renderExisting" =>
        /\ ~threw
        /\ form = "attached"
        /\ currentRows = IF addressed(last.decided) THEN <<0, last.decided>> ELSE <<0>>
        /\ [i \in 1..Len(domRows) |-> domRows[i].rowId] = currentRows

\* C40: rendering a table field with pagination enabled does not raise and
\* yields a table on page 1 with 5 rows per page, one untagged row, and its
\* pagination controls in place.
C40_PagedTableCreated ==
    last.op = "render" =>
        \A config \in PagedFields :
            (config.type = "table" /\ config.pagination) =>
                /\ ~threw
                /\ config.id \in DOMAIN fields
                /\ fields[config.id].tbl.controls
                /\ fields[config.id].tbl.currentPage = 1
                /\ fields[config.id].tbl.rowsPerPage = 5
                /\ Len(fields[config.id].tbl.rows) = 1
                /\ fields[config.id].tbl.rows[1].id = ""

====
